---------------------------- MODULE Spec2Model ----------------------------
(***************************************************************************)
(* A model of literumilo, the Esperanto spell checker and morphological    *)
(* analyzer (src/src/*.rs).                                                *)
(*                                                                         *)
(* A string is a sequence of characters.  A character is written as a TLA+ *)
(* string: "a", "V", "-" ...; the Esperanto accented letters carry their   *)
(* x-system names ("cx" is c-circumflex, "ux" is u-breve, "Gx" is capital  *)
(* g-circumflex), "shy" is the soft hyphen U+00AD, "Idot" is U+0130        *)
(* (capital I with dot above) and "cdot" is U+0307 (combining dot above).  *)
(***************************************************************************)
EXTENDS Integers, Sequences, FiniteSets, TLC

VARIABLES
    token,          \* the word handed to check_word (its parameter original_word)
    dictionary,     \* the HashMap<String, Entry> built by make_dictionary
    pc,             \* position inside check_word
    original_word,  \* check_word's shadowed original_word (hyphens removed)
    word,           \* check_word's lowercased word
    ending,         \* the Ending found by Ending::new (NoEnding before and if none)
    morpheme_list,  \* Morphemes.morpheme_list: slots 0 .. MAX_MORPHEMES-1
    last_index,     \* Morphemes.last_index
    stack,          \* the active calls of find_morpheme, innermost last
    result,         \* the AnalysisResult returned (NoResult while running)
    calls,          \* history: how often each part of the program has run
    run,            \* 1: the token is an input; 2: it is a rendered word fed back
    first,          \* the AnalysisResult of run 1, kept during run 2
    source          \* make_dictionary: the lines of the data not yet read
                    \* (SpecSuffix: the rows of the morphemes not yet placed)

vars == <<token, dictionary, pc, original_word, word, ending, morpheme_list,
          last_index, stack, result, calls, run, first, source>>

-----------------------------------------------------------------------------
(* Bounds of the model.                                                    *)

\* Longest token drawn letter by letter from TokenAlphabet.
MaxLen == 3
\* Most suffixes placed behind the first morpheme when the suffix rules run
\* on their own.
MaxSuffixes == 2
\* Most lines of dictionary data read by make_dictionary on its own.
MaxRows == 3
\* Most parts (morphemes, endings, hyphens) a token is assembled from.
MaxParts == 3
\* Most repetitions of one morpheme in a long compound.
MaxRepeat == 10
\* Longest word handed to Ending::new in SpecEnding.
MaxEndingLen == 5
\* Positions in a long compound after which a separator letter may stand.
MaxSeparators == 2

-----------------------------------------------------------------------------
(* Characters: src/src/macros.rs and the str methods the program uses.     *)

AsciiLower == <<"a","b","c","d","e","f","g","h","i","j","k","l","m",
                "n","o","p","q","r","s","t","u","v","w","x","y","z">>
AsciiUpper == <<"A","B","C","D","E","F","G","H","I","J","K","L","M",
                "N","O","P","Q","R","S","T","U","V","W","X","Y","Z">>
AccentLower == <<"cx","gx","hx","jx","sx","ux">>
AccentUpper == <<"Cx","Gx","Hx","Jx","Sx","Ux">>

Range(s) == { s[i] : i \in DOMAIN s }

\* char::to_lowercase as used by str::to_lowercase: one character may become
\* several (U+0130 becomes "i" followed by U+0307).
char_to_lowercase(ch) ==
    IF ch \in Range(AsciiUpper)
    THEN << AsciiLower[CHOOSE i \in DOMAIN AsciiUpper : AsciiUpper[i] = ch] >>
    ELSE IF ch \in Range(AccentUpper)
    THEN << AccentLower[CHOOSE i \in DOMAIN AccentUpper : AccentUpper[i] = ch] >>
    ELSE IF ch = "Idot" THEN <<"i", "cdot">>
    ELSE <<ch>>

RECURSIVE to_lowercase(_)
to_lowercase(s) ==
    IF s = <<>> THEN <<>>
    ELSE char_to_lowercase(Head(s)) \o to_lowercase(Tail(s))

\* Bytes of the UTF-8 encoding of a character (String::len counts bytes).
utf8_len(ch) ==
    IF ch \in Range(AsciiLower) \cup Range(AsciiUpper) \cup {"-", "."} THEN 1 ELSE 2

RECURSIVE byte_len(_)
byte_len(s) == IF s = <<>> THEN 0 ELSE utf8_len(Head(s)) + byte_len(Tail(s))

is_hyphen(ch) == ch = "-" \/ ch = "shy"

is_word_char(ch) ==
    \/ ch \in Range(AsciiLower)
    \/ ch \in Range(AsciiUpper)
    \/ ch \in Range(AccentLower) \cup Range(AccentUpper) \cup {"Idot"}
    \/ ch = "-"
    \/ ch = "shy"

accepts_hat(ch) ==
    ch \in {"c","g","s","u","h","j","C","G","S","U","H","J"}

is_x(ch) == ch = "x" \/ ch = "X"

accent_letter(ch) ==
    CASE ch = "c" -> "cx" [] ch = "g" -> "gx" [] ch = "s" -> "sx"
      [] ch = "u" -> "ux" [] ch = "j" -> "jx" [] ch = "h" -> "hx"
      [] ch = "C" -> "Cx" [] ch = "G" -> "Gx" [] ch = "S" -> "Sx"
      [] ch = "U" -> "Ux" [] ch = "J" -> "Jx" [] ch = "H" -> "Hx"
      [] OTHER -> "?"

-----------------------------------------------------------------------------
(* src/src/lib.rs                                                          *)

RECURSIVE x_to_accent(_)
x_to_accent(w) ==
    IF w = <<>> THEN <<>>
    ELSE IF accepts_hat(w[1]) /\ Len(w) > 1 /\ is_x(w[2])
         THEN <<accent_letter(w[1])>> \o x_to_accent(SubSeq(w, 3, Len(w)))
         ELSE <<w[1]>> \o x_to_accent(Tail(w))

RECURSIVE remove_char(_, _)
remove_char(s, ch) ==
    IF s = <<>> THEN <<>>
    ELSE IF Head(s) = ch THEN remove_char(Tail(s), ch)
    ELSE <<Head(s)>> \o remove_char(Tail(s), ch)

remove_hyphens(w) == remove_char(remove_char(w, "-"), "shy")

\* restore_capitals walks the analyzed form; every character that is not a
\* '.' takes the next character of the original.  original_chars[index]
\* panics when the original is used up: panic is then TRUE.
RECURSIVE restore_from(_, _, _)
restore_from(original, analyzed, index) ==
    IF analyzed = <<>> THEN [panic |-> FALSE, text |-> <<>>]
    ELSE IF Head(analyzed) = "."
    THEN LET r == restore_from(original, Tail(analyzed), index)
         IN  [panic |-> r.panic, text |-> <<".">> \o r.text]
    ELSE IF index >= Len(original)
    THEN [panic |-> TRUE, text |-> <<>>]
    ELSE LET r == restore_from(original, Tail(analyzed), index + 1)
         IN  [panic |-> r.panic, text |-> <<original[index + 1]>> \o r.text]

\* A restore_capitals that hands back the analyzed form as it is.
restore_capitals_unrestored(original, analyzed) ==
    [panic |-> FALSE, text |-> analyzed]

restore_capitals(original, analyzed) == restore_from(original, analyzed, 0)

-----------------------------------------------------------------------------
(* src/src/entry.rs                                                        *)

\* enum POS in declaration order: the derived PartialOrd compares positions.
POSOrder == <<"Substantive", "SubstantiveVerb", "Verb", "Adjective", "Number",
              "Adverb", "Pronoun", "PronounAdjective", "Preposition",
              "Conjunction", "Subjunction", "Interjection", "Prefix",
              "TechPrefix", "Suffix", "Article", "Participle", "Abbreviation",
              "Letter">>

POSRank(p) == CHOOSE i \in DOMAIN POSOrder : POSOrder[i] = p

\* a <= b and a > b on POS values.
pos_le(a, b) == POSRank(a) <= POSRank(b)
pos_gt(a, b) == POSRank(a) > POSRank(b)

POS_new(s) ==
    CASE s = "SUBST" -> "Substantive"
      [] s = "ADVERBO" -> "Adverb"
      [] s = "INTERJEKCIO" -> "Interjection"
      [] s = "MALLONGIGO" -> "Abbreviation"
      [] s = "VERBO" -> "Verb"
      [] s = "ADJ" -> "Adjective"
      [] s = "PRONOMADJ" -> "PronounAdjective"
      [] s = "SUFIKSO" -> "Suffix"
      [] s = "PREPOZICIO" -> "Preposition"
      [] s = "LITERO" -> "Letter"
      [] s = "TEHXPREFIKSO" -> "TechPrefix"
      [] s = "PRONOMO" -> "Pronoun"
      [] s = "PARTICIPO" -> "Participle"
      [] s = "KONJUNKCIO" -> "Conjunction"
      [] s = "NUMERO" -> "Number"
      [] s = "SUBJUNKCIO" -> "Subjunction"
      [] s = "ARTIKOLO" -> "Article"
      [] s = "PREFIKSO" -> "Prefix"
      [] s = "SUBSTVERBO" -> "SubstantiveVerb"
      [] OTHER -> "Substantive"

\* Capitalization::new: from the first two characters.
is_uppercase(ch) == ch \in Range(AsciiUpper) \cup Range(AccentUpper) \cup {"Idot"}

Capitalization_new(s) ==
    LET unua == is_uppercase(s[1])
        dua  == IF Len(s) > 1 THEN is_uppercase(s[2]) ELSE FALSE
    IN  IF unua /\ dua THEN "AllCaps"
        ELSE IF unua THEN "Majuscule"
        ELSE "Miniscule"

\* The match of Meaning::new: code in the dictionary data, Meaning value.
MeaningCodes == <<
    <<"N","NeKonata">>, <<"LEGOMO","Legomo">>, <<"BOATO","Boato">>,
    <<"KRUSTULO","Krustulo">>, <<"INSULO","Insulo">>, <<"RELIGIO","Religio">>,
    <<"HERBO","Herbo">>, <<"KOLORO","Koloro">>, <<"PLANTO","Planto">>,
    <<"FESTO","Festo">>, <<"LIBRO","Libro">>, <<"LOKO","Loko">>,
    <<"DROGO","Drogo">>, <<"LAGO","Lago">>, <<"PSEUXDOSCI","Pseuxdoscienco">>,
    <<"RELPOSTENO","ReligiaPosteno">>, <<"PROFESIO","Profesio">>,
    <<"GRAMATIKO","Gramatiko">>, <<"EHXINODERMO","Ehxinodermo">>,
    <<"MEDIKAMENTO","Medikamento">>, <<"REGIONO","Regiono">>,
    <<"BIOLOGIO","Biologio">>, <<"BIRDO","Birdo">>, <<"URBO","Urbo">>,
    <<"VETURILO","Veturilo">>, <<"LANDO","Lando">>, <<"ETNO","Etno">>,
    <<"KANTO","Kanto">>, <<"VESTAJXO","Vestajxo">>, <<"TITOLO","Titolo">>,
    <<"REGANTO","Reganto">>, <<"RIVERO","Rivero">>, <<"ARTO","Arto">>,
    <<"ERAO","Erao">>, <<"PROVINCO","Provinco">>, <<"MUZIKO","Muziko">>,
    <<"PERSONO","Persono">>, <<"SXTATO","Sxtato">>, <<"MAMULO","Mamulo">>,
    <<"FISXO","Fisxo">>, <<"MEZURUNUO","Mezurunuo">>, <<"FUNGO","Fungo">>,
    <<"KURACARTO","Kuracarto">>, <<"ARMILO","Armilo">>, <<"ALGO","Algo">>,
    <<"KOELENTERO","Koelentero">>, <<"NUKSO","Nukso">>, <<"MONTO","Monto">>,
    <<"GEOGRAFIO","Geografio">>, <<"TEHXNOLOGIO","Tehxnologio">>,
    <<"MONATO","Monato">>, <<"ARKITEKTURO","Arkitekturo">>,
    <<"INSULARO","Insularo">>, <<"METIO","Metio">>,
    <<"ASTRONOMIO","Astronomio">>, <<"KREDO","Kredo">>,
    <<"MOLUSKO","Molusko">>, <<"REPTILIO","Reptilio">>,
    <<"TRINKAJXO","Trinkajxo">>, <<"ANIMALO","Animalo">>,
    <<"INSEKTO","Insekto">>, <<"FRUKTO","Frukto">>, <<"ARBUSTO","Arbusto">>,
    <<"ARAKNIDO","Araknido">>, <<"AVIADILO","Aviadilo">>,
    <<"SPORTO","Sporto">>, <<"ELEMENTO","Elemento">>, <<"ALOJO","Alojo">>,
    <<"RELPERSONO","ReligiaPersono">>, <<"RELPROFESIO","ReligiaProfesio">>,
    <<"KEMIAJXO","Kemiajxo">>, <<"FILOZOFIO","Filozofio">>,
    <<"SXTOFO","Sxtofo">>, <<"POSTENO","Posteno">>, <<"PARENCO","Parenco">>,
    <<"KONSTRUAJXO","Konstruajxo">>, <<"CEREALO","Cerealo">>,
    <<"DANCO","Danco">>, <<"TAGO","Tago">>, <<"POEMO","Poemo">>,
    <<"SXIPO","Sxipo">>, <<"LUDILO","Ludilo">>, <<"POEZIO","Poezio">>,
    <<"CXAMBRO","Cxambro">>, <<"MANGXAJXO","Mangxajxo">>, <<"ASTRO","Astro">>,
    <<"ILO","Ilo">>, <<"MIKROBO","Mikrobo">>, <<"LUDO","Ludo">>,
    <<"DEZERTO","Dezerto">>, <<"MITBESTO","MitaBesto">>, <<"DRAMO","Dramo">>,
    <<"VETERO","Vetero">>, <<"ARBO","Arbo">>, <<"SCIENCO","Scienco">>,
    <<"ORNAMAJXO","Ornamajxo">>, <<"VERMO","Vermo">>,
    <<"MINERALO","Mineralo">>, <<"SPICO","Spico">>, <<"MASXINO","Masxino">>,
    <<"KONTINENTO","Kontinento">>, <<"PERIODO","Periodo">>,
    <<"LINGVO","Lingvo">>, <<"MEZURILO","Mezurilo">>, <<"MARO","Maro">>,
    <<"MONTARO","Montaro">>, <<"MITPERSONO","MitaPersono">>,
    <<"FONETIKO","Fonetiko">>, <<"MONERO","Monero">>,
    <<"MATEMATIKO","Matematiko">>, <<"RANGO","Rango">>,
    <<"ANATOMIO","Anatomio">>, <<"STUDO","Studo">>, <<"OPTIKO","Optiko">>,
    <<"AMFIBIO","Amfibio">>, <<"MALSANO","Malsano">>,
    <<"MUZIKILO","Muzikilo">>, <<"GEOMETRIO","Geometrio">>
    >>

Meaning_new(s) ==
    IF \E i \in DOMAIN MeaningCodes : MeaningCodes[i][1] = s
    THEN MeaningCodes[CHOOSE i \in DOMAIN MeaningCodes : MeaningCodes[i][1] = s][2]
    ELSE "NeKonata"

is_person(meaning) ==
    meaning \in {"Persono", "Parenco", "Etno", "Profesio", "Rango", "Reganto",
                 "Titolo", "Posteno", "ReligiaPosteno", "ReligiaPersono",
                 "ReligiaProfesio", "MitaPersono"}

is_animal(meaning) ==
    meaning \in {"Animalo", "Mamulo", "Birdo", "Fisxo", "Reptilio", "MitaBesto",
                 "Insekto", "Araknido", "Molusko", "Amfibio"}

Transitivity_new(s) ==
    CASE s = "T" -> "Transitive" [] s = "N" -> "Intransitive" [] OTHER -> "Both"

WithoutEnding_new(s) == IF s = "SF" THEN "Yes" ELSE "No"

WithEnding_new(s) == IF s = "KF" THEN "Yes" ELSE "No"

Synthesis_new(s) ==
    CASE s = "S" -> "Suffix" [] s = "P" -> "Prefix" [] s = "PRT" -> "Participle"
      [] s = "LM" -> "Limited" [] s = "NLM" -> "UnLimited" [] OTHER -> "No"

Flag_new(s) ==
    CASE s = "R" -> "Simple" [] s = "K" -> "Compound" [] OTHER -> "Exclude"

\* Option<Entry>::None.
NoEntry == [none |-> TRUE]

\* Entry::new(fields): fields[0] is the morpheme as written in the data (a
\* sequence of characters), fields[1..8] are the codes of the other columns
\* (the rarity already a number).  TLA+ sequences count from 1.
Entry_new(fields) ==
    LET word2 == x_to_accent(fields[1])
        len   == Len(word2)
    IN  IF len = 1 THEN NoEntry
        ELSE IF fields[9] = "X" THEN NoEntry
        ELSE [ word           |-> word2,
               length         |-> len,
               capitalization |-> Capitalization_new(word2),
               part_of_speech |-> POS_new(fields[2]),
               meaning        |-> Meaning_new(fields[3]),
               transitivity   |-> Transitivity_new(fields[4]),
               without_ending |-> WithoutEnding_new(fields[5]),
               with_ending    |-> WithEnding_new(fields[6]),
               synthesis      |-> Synthesis_new(fields[7]),
               rarity         |-> fields[8],
               flag           |-> Flag_new(fields[9]) ]

Entry_empty ==
    [ word           |-> <<>>,
      length         |-> 0,
      capitalization |-> "Miniscule",
      part_of_speech |-> "Substantive",
      meaning        |-> "NeKonata",
      transitivity   |-> "Transitive",
      without_ending |-> "No",
      with_ending    |-> "No",
      synthesis      |-> "No",
      rarity         |-> 0,
      flag           |-> "Simple" ]

\* Entry::new_separator(separator): NoEntry unless "o", "a" or "e".
Entry_new_separator(separator) ==
    IF separator \notin {<<"o">>, <<"a">>, <<"e">>} THEN NoEntry
    ELSE [ word           |-> separator,
           length         |-> 1,
           capitalization |-> "Miniscule",
           part_of_speech |-> CASE separator = <<"o">> -> "Substantive"
                                [] separator = <<"a">> -> "Adjective"
                                [] separator = <<"e">> -> "Adverb",
           meaning        |-> "NeKonata",
           transitivity   |-> "Intransitive",
           without_ending |-> "No",
           with_ending    |-> "No",
           synthesis      |-> "No",
           rarity         |-> 4,
           flag           |-> "Separator" ]

-----------------------------------------------------------------------------
(* src/src/vortaro.rs                                                      *)

\* A key that keeps the periods of the row's text.
make_key_dotted(vorto) == to_lowercase(x_to_accent(vorto))

\* The key make_dictionary computes for a row.
make_key(vorto) == to_lowercase(remove_char(x_to_accent(vorto), "."))

\* HashMap::insert.
map_insert(map, key, entry) ==
    [k \in DOMAIN map \cup {key} |-> IF k = key THEN entry ELSE map[k]]

\* make_dictionary(data).  data is the sequence of the lines of the data,
\* each already split at white space: an empty line is <<>>, a comment line
\* starts with a field whose first character is '#'.
RECURSIVE make_dictionary_from(_, _)
make_dictionary_from(map, data) ==
    IF data = <<>> THEN map
    ELSE LET split_line == Head(data)
             rest       == Tail(data)
         IN  IF split_line = <<>> THEN make_dictionary_from(map, rest)
             ELSE IF split_line[1][1] = "#" THEN make_dictionary_from(map, rest)
             ELSE IF Len(split_line) < 9 THEN make_dictionary_from(map, rest)
             ELSE LET entry == Entry_new(split_line)
                  IN  IF entry = NoEntry THEN make_dictionary_from(map, rest)
                      ELSE make_dictionary_from(
                               map_insert(map, make_key(split_line[1]), entry), rest)

make_dictionary(data) == make_dictionary_from(<<>>, data)

-----------------------------------------------------------------------------
(* src/src/ending.rs                                                       *)

\* Option<Ending>::None.
NoEnding == [ending |-> <<>>, length |-> 0, pos |-> "None"]

SUB_O   == [ending |-> <<"o">>, length |-> 1, pos |-> "Substantive"]
SUB_ON  == [ending |-> <<"o","n">>, length |-> 2, pos |-> "Substantive"]
SUB_OJ  == [ending |-> <<"o","j">>, length |-> 2, pos |-> "Substantive"]
SUB_OJN_short == [ending |-> <<"o","j","n">>, length |-> 2, pos |-> "Substantive"]
SUB_OJN == [ending |-> <<"o","j","n">>, length |-> 3, pos |-> "Substantive"]
VERB_IS == [ending |-> <<"i","s">>, length |-> 2, pos |-> "Verb"]
VERB_AS == [ending |-> <<"a","s">>, length |-> 2, pos |-> "Verb"]
VERB_OS == [ending |-> <<"o","s">>, length |-> 2, pos |-> "Verb"]
VERB_I  == [ending |-> <<"i">>, length |-> 1, pos |-> "Verb"]
VERB_U  == [ending |-> <<"u">>, length |-> 1, pos |-> "Verb"]
VERB_US == [ending |-> <<"u","s">>, length |-> 2, pos |-> "Verb"]
ADJ_A   == [ending |-> <<"a">>, length |-> 1, pos |-> "Adjective"]
ADJ_AN  == [ending |-> <<"a","n">>, length |-> 2, pos |-> "Adjective"]
ADJ_AJ  == [ending |-> <<"a","j">>, length |-> 2, pos |-> "Adjective"]
ADJ_AJN == [ending |-> <<"a","j","n">>, length |-> 3, pos |-> "Adjective"]
ADV_E   == [ending |-> <<"e">>, length |-> 1, pos |-> "Adverb"]
ADV_EN  == [ending |-> <<"e","n">>, length |-> 2, pos |-> "Adverb"]

\* Ending::new(original_word).  The characters are read from the end:
\* last, second_last, third_last.
Ending_new(w) ==
    LET length      == Len(w)
        last        == w[length]
        second_last == w[length - 1]
        third_last  == w[length - 2]
    IN  IF length = 0 THEN NoEnding
        ELSE IF length < 3 THEN NoEnding
        ELSE IF last = "o" THEN SUB_O
        ELSE IF last = "s" THEN
            IF length < 4 THEN NoEnding
            ELSE CASE second_last = "a" -> VERB_AS
                   [] second_last = "i" -> VERB_IS
                   [] second_last = "o" -> VERB_OS
                   [] second_last = "u" -> VERB_US
                   [] OTHER -> NoEnding
        ELSE IF last = "n" THEN
            IF length < 4 THEN NoEnding
            ELSE IF second_last = "o" THEN SUB_ON
            ELSE IF second_last = "a" THEN ADJ_AN
            ELSE IF second_last = "e" THEN ADV_EN
            ELSE IF second_last = "j" THEN
                IF length < 5 THEN NoEnding
                ELSE IF third_last = "o" THEN SUB_OJN
                ELSE IF third_last = "a" THEN ADJ_AJN
                ELSE NoEnding
            ELSE NoEnding
        ELSE IF last = "j" THEN
            IF length < 4 THEN NoEnding
            ELSE IF second_last = "o" THEN SUB_OJ
            ELSE IF second_last = "a" THEN ADJ_AJ
            ELSE NoEnding
        ELSE CASE last = "a" -> ADJ_A
               [] last = "e" -> ADV_E
               [] last = "i" -> VERB_I
               [] last = "u" -> VERB_U
               [] OTHER -> NoEnding

-----------------------------------------------------------------------------
(* src/src/morpheme_list.rs                                                *)

\* The maximum number of morphemes in a compound word.
MAX_MORPHEMES == 9

Slots == 0 .. (MAX_MORPHEMES - 1)

\* Morphemes::new: every slot holds Entry::empty(), last_index is 0.
Morphemes_new == [i \in Slots |-> Entry_empty]

\* Morphemes::put stores a clone of the entry; the caller sets last_index.
\* Indexing morpheme_list[index] panics outside the vector.
put_panics(index) == index \notin Slots

\* A put that always writes slot 0.
put_at_zero(list, index, entry) == [list EXCEPT ![0] = entry]

\* A put that leaves a slot already written as it is.
put_once(list, index, entry) ==
    IF list[index] = Entry_empty THEN [list EXCEPT ![index] = entry] ELSE list

put(list, index, entry) == [list EXCEPT ![index] = entry]

RECURSIVE join_words(_, _, _)
join_words(list, i, last) ==
    IF i > last THEN <<>>
    ELSE IF i \in Slots THEN <<".">> \o list[i].word \o join_words(list, i + 1, last)
    ELSE join_words(list, i + 1, last)

\* Morphemes::display_form: slot 0, then '.' and the word of each slot
\* 1..=last_index, then '.' and the ending.
display_form(list, last, e) ==
    list[0].word \o join_words(list, 1, last) \o <<".">> \o e.ending

count_separators(list, last) ==
    Cardinality({ i \in 0 .. last : list[i].flag = "Separator" })

-----------------------------------------------------------------------------
(* src/src/suffix.rs.  A suffix rule gets the index of the suffix and the   *)
(* slots; it answers whether the synthesis is valid and gives the slots     *)
(* back, the suffix's own slot possibly rewritten.                          *)

Some(list, i) == i \in Slots

accept(list) == [valid |-> TRUE, list |-> list]
reject(list) == [valid |-> FALSE, list |-> list]

check_acx(index, list) ==
    IF index = 0
    THEN IF Some(list, index)
         THEN accept([list EXCEPT ![index].part_of_speech = "Adjective"])
         ELSE reject(list)
    ELSE IF ~Some(list, index - 1) THEN reject(list)
    ELSE LET previous_entry == list[index - 1]
             pos == previous_entry.part_of_speech
         IN  IF Some(list, index)
                /\ (pos_le(pos, "Adjective") \/ pos = "Participle")
             THEN accept([list EXCEPT
                     ![index].part_of_speech = pos,
                     ![index].meaning = previous_entry.meaning,
                     ![index].transitivity = previous_entry.transitivity])
             ELSE reject(list)

check_ad(index, list) ==
    IF index = 0 THEN reject(list)
    ELSE IF ~Some(list, index - 1) THEN reject(list)
    ELSE LET previous_entry == list[index - 1]
             pos == previous_entry.part_of_speech
         IN  IF Some(list, index) /\ pos_le(pos, "Verb")
             THEN accept([list EXCEPT
                     ![index].part_of_speech = "Verb",
                     ![index].transitivity = previous_entry.transitivity])
             ELSE reject(list)

check_ajx(index, list) ==
    IF index = 0 THEN accept(list)
    ELSE IF ~Some(list, index - 1) THEN reject(list)
    ELSE LET previous_entry == list[index - 1]
             pos == previous_entry.part_of_speech
         IN  IF pos_le(pos, "Adjective") THEN accept(list)
             ELSE IF pos = "Preposition" \/ pos = "Participle" THEN accept(list)
             ELSE IF is_animal(previous_entry.meaning) THEN accept(list)
             ELSE reject(list)

check_an(index, list) ==
    IF index = 0 THEN accept(list)
    ELSE IF ~Some(list, index - 1) THEN reject(list)
    ELSE LET previous_entry == list[index - 1]
         IN  IF pos_le(previous_entry.part_of_speech, "SubstantiveVerb")
             THEN IF is_person(previous_entry.meaning) THEN reject(list)
                  ELSE accept(list)
             ELSE reject(list)

check_ar(index, list) ==
    IF index = 0 THEN accept(list)
    ELSE IF ~Some(list, index - 1) THEN reject(list)
    ELSE LET pos == list[index - 1].part_of_speech
         IN  IF pos_le(pos, "SubstantiveVerb") \/ pos = "Participle"
             THEN accept(list)
             ELSE reject(list)

check_ebl(index, list) ==
    IF index = 0 THEN accept(list)
    ELSE IF ~Some(list, index - 1) THEN reject(list)
    ELSE LET previous_entry == list[index - 1]
             pos == previous_entry.part_of_speech
         IN  IF (pos = "Verb" \/ pos = "SubstantiveVerb")
                /\ previous_entry.transitivity = "Transitive"
             THEN accept(list)
             ELSE reject(list)

\* An -ec that accepts as check_ec does and leaves the slot as placed.
check_ec_unchanged(index, list) ==
    IF index = 0 THEN reject(list)
    ELSE IF ~Some(list, index - 1) THEN reject(list)
    ELSE LET pos == list[index - 1].part_of_speech
         IN  IF Some(list, index)
                /\ (\/ pos_le(pos, "SubstantiveVerb")
                    \/ pos = "Adjective"
                    \/ pos = "Number"
                    \/ pos = "Participle")
             THEN accept(list)
             ELSE reject(list)

check_ec(index, list) ==
    IF index = 0 THEN reject(list)
    ELSE IF ~Some(list, index - 1) THEN reject(list)
    ELSE LET pos == list[index - 1].part_of_speech
         IN  IF Some(list, index)
                /\ (\/ pos_le(pos, "SubstantiveVerb")
                    \/ pos = "Adjective"
                    \/ pos = "Number"
                    \/ pos = "Participle")
             THEN accept([list EXCEPT ![index].part_of_speech = "Substantive"])
             ELSE reject(list)

\* An -eg and -et that copy the part of speech only.
check_eg_et_pos(index, list) ==
    IF index = 0 THEN reject(list)
    ELSE IF ~Some(list, index - 1) THEN reject(list)
    ELSE LET pos == list[index - 1].part_of_speech
         IN  IF Some(list, index) /\ pos_le(pos, "Adjective")
             THEN accept([list EXCEPT ![index].part_of_speech = pos])
             ELSE reject(list)

check_eg_et(index, list) ==
    IF index = 0 THEN reject(list)
    ELSE IF ~Some(list, index - 1) THEN reject(list)
    ELSE LET previous_entry == list[index - 1]
             pos == previous_entry.part_of_speech
         IN  IF Some(list, index) /\ pos_le(pos, "Adjective")
             THEN accept([list EXCEPT
                     ![index].part_of_speech = pos,
                     ![index].meaning = previous_entry.meaning,
                     ![index].transitivity = previous_entry.transitivity])
             ELSE reject(list)

check_ej(index, list) ==
    IF index = 0 THEN reject(list)
    ELSE IF ~Some(list, index - 1) THEN reject(list)
    ELSE LET previous_entry == list[index - 1]
         IN  IF pos_le(previous_entry.part_of_speech, "Adjective")
             THEN IF previous_entry.meaning = "Loko" THEN reject(list)
                  ELSE accept(list)
             ELSE reject(list)

check_em(index, list) ==
    IF index = 0 THEN reject(list)
    ELSE IF ~Some(list, index - 1) THEN reject(list)
    ELSE IF pos_le(list[index - 1].part_of_speech, "Adjective") THEN accept(list)
    ELSE reject(list)

check_end_ind(index, list) ==
    IF index = 0 THEN reject(list)
    ELSE IF ~Some(list, index - 1) THEN reject(list)
    ELSE IF list[index - 1].transitivity = "Transitive" THEN accept(list)
    ELSE reject(list)

check_er(index, list) ==
    IF index = 0 THEN reject(list)
    ELSE IF ~Some(list, index - 1) THEN reject(list)
    ELSE LET previous_entry == list[index - 1]
         IN  IF previous_entry.word = <<"s","u","p">> THEN reject(list)
             ELSE IF pos_le(previous_entry.part_of_speech, "SubstantiveVerb")
             THEN accept(list)
             ELSE reject(list)

check_ik_ing_ism(index, list) ==
    IF index = 0 THEN reject(list)
    ELSE IF ~Some(list, index - 1) THEN reject(list)
    ELSE IF pos_le(list[index - 1].part_of_speech, "SubstantiveVerb")
    THEN accept(list)
    ELSE reject(list)

check_estr(index, list) ==
    IF index = 0
    THEN IF Some(list, index)
         THEN accept([list EXCEPT ![index].part_of_speech = "Substantive",
                                  ![index].meaning = "Persono"])
         ELSE reject(list)
    ELSE IF ~Some(list, index - 1) THEN reject(list)
    ELSE IF Some(list, index)
            /\ pos_le(list[index - 1].part_of_speech, "SubstantiveVerb")
    THEN accept([list EXCEPT ![index].part_of_speech = "Substantive",
                             ![index].meaning = "Persono"])
    ELSE reject(list)

check_id(index, list) ==
    IF index = 0 THEN accept(list)
    ELSE IF ~Some(list, index - 1) THEN reject(list)
    ELSE LET meaning == list[index - 1].meaning
         IN  IF meaning = "Etno" THEN accept(list)
             ELSE IF is_animal(meaning) THEN accept(list)
             ELSE reject(list)

check_ig_igx(index, list) ==
    IF index = 0 THEN reject(list)
    ELSE IF ~Some(list, index - 1) THEN reject(list)
    ELSE LET pos == list[index - 1].part_of_speech
         IN  IF pos_le(pos, "Adverb") \/ pos = "Preposition" \/ pos = "Prefix"
             THEN accept(list)
             ELSE reject(list)

check_il(index, list) ==
    IF index = 0 THEN accept(list)
    ELSE IF ~Some(list, index - 1) THEN reject(list)
    ELSE LET previous_entry == list[index - 1]
             pos == previous_entry.part_of_speech
         IN  IF (pos = "Verb" \/ pos = "SubstantiveVerb")
                /\ previous_entry.meaning # "Ilo"
             THEN accept(list)
             ELSE reject(list)

check_in(index, list) ==
    IF index = 0 THEN accept(list)
    ELSE IF ~Some(list, index - 1) THEN reject(list)
    ELSE LET meaning == list[index - 1].meaning
         IN  IF is_person(meaning) \/ is_animal(meaning) THEN accept(list)
             ELSE reject(list)

check_ist(index, list) ==
    IF index = 0 THEN reject(list)
    ELSE IF ~Some(list, index - 1) THEN reject(list)
    ELSE LET previous_entry == list[index - 1]
         IN  IF pos_le(previous_entry.part_of_speech, "Verb")
                /\ ~is_person(previous_entry.meaning)
             THEN accept(list)
             ELSE reject(list)

check_obl_on_op(index, list) ==
    IF index = 0 THEN reject(list)
    ELSE IF ~Some(list, index - 1) THEN reject(list)
    ELSE IF list[index - 1].part_of_speech = "Number" THEN accept(list)
    ELSE reject(list)

check_uj(index, list) ==
    IF index = 0 THEN reject(list)
    ELSE IF ~Some(list, index - 1) THEN reject(list)
    ELSE LET previous_entry == list[index - 1]
         IN  IF pos_le(previous_entry.part_of_speech, "SubstantiveVerb")
                /\ previous_entry.meaning # "Arbo"
             THEN accept(list)
             ELSE reject(list)

check_ul(index, list) ==
    IF index = 0 THEN accept(list)
    ELSE IF ~Some(list, index - 1) THEN reject(list)
    ELSE LET previous_entry == list[index - 1]
             pos == previous_entry.part_of_speech
         IN  IF pos = "Participle" THEN accept(list)
             ELSE IF pos_le(pos, "Adjective") /\ ~is_person(previous_entry.meaning)
             THEN accept(list)
             ELSE IF pos = "Preposition" THEN accept(list)
             ELSE reject(list)

check_suffix(suffix, index, list) ==
    CASE suffix = <<"a","cx">> -> check_acx(index, list)
      [] suffix = <<"a","d">> -> check_ad(index, list)
      [] suffix = <<"a","jx">> -> check_ajx(index, list)
      [] suffix = <<"a","n">> -> check_an(index, list)
      [] suffix = <<"a","r">> -> check_ar(index, list)
      [] suffix = <<"e","b","l">> -> check_ebl(index, list)
      [] suffix = <<"e","c">> -> check_ec(index, list)
      [] suffix = <<"e","g">> -> check_eg_et(index, list)
      [] suffix = <<"e","t">> -> check_eg_et(index, list)
      [] suffix = <<"e","j">> -> check_ej(index, list)
      [] suffix = <<"e","m">> -> check_em(index, list)
      [] suffix = <<"e","n","d">> -> check_end_ind(index, list)
      [] suffix = <<"i","n","d">> -> check_end_ind(index, list)
      [] suffix = <<"e","r">> -> check_er(index, list)
      [] suffix = <<"i","k">> -> check_ik_ing_ism(index, list)
      [] suffix = <<"i","n","g">> -> check_ik_ing_ism(index, list)
      [] suffix = <<"i","s","m">> -> check_ik_ing_ism(index, list)
      [] suffix = <<"e","s","t","r">> -> check_estr(index, list)
      [] suffix = <<"i","d">> -> check_id(index, list)
      [] suffix = <<"i","g">> -> check_ig_igx(index, list)
      [] suffix = <<"i","gx">> -> check_ig_igx(index, list)
      [] suffix = <<"i","l">> -> check_il(index, list)
      [] suffix = <<"i","n">> -> check_in(index, list)
      [] suffix = <<"i","s","t">> -> check_ist(index, list)
      [] suffix = <<"o","b","l">> -> check_obl_on_op(index, list)
      [] suffix = <<"o","n">> -> check_obl_on_op(index, list)
      [] suffix = <<"o","p">> -> check_obl_on_op(index, list)
      [] suffix = <<"u","j">> -> check_uj(index, list)
      [] suffix = <<"u","l">> -> check_ul(index, list)
      [] OTHER -> reject(list)

-----------------------------------------------------------------------------
(* src/src/scan_morphemes.rs.  These rules read the slots 0..=last and the  *)
(* ending e of the word; none of them writes.                               *)

type_of_ending(e) == e.pos

check_prepositional_prefix_next(index, list, last, e) ==
    IF last > 0 /\ (type_of_ending(e) = "Adjective" \/ type_of_ending(e) = "Adverb")
    THEN TRUE
    ELSE /\ index < last
         /\ Some(list, index + 1)
         /\ list[index + 1].part_of_speech \in {"Verb", "SubstantiveVerb"}

check_prepositional_prefix(index, list, last, e) ==
    IF last > 0 /\ (type_of_ending(e) = "Adjective" \/ type_of_ending(e) = "Adverb")
    THEN TRUE
    ELSE \E n \in (index + 1) .. last :
            /\ Some(list, n)
            /\ list[n].part_of_speech \in {"Verb", "SubstantiveVerb"}

check_adverbial_prefix(index, list, last, e) ==
    IF last > 0 /\ type_of_ending(e) = "Verb"
    THEN TRUE
    ELSE \E n \in (index + 1) .. last :
            /\ Some(list, n)
            /\ list[n].part_of_speech \in {"Verb", "SubstantiveVerb"}

check_first(index, list, last, e) == index = 0

check_bo(index, list, last, e) ==
    IF index # 0 THEN FALSE
    ELSE LET difference == last - index
         IN  /\ difference > 0
             /\ Some(list, index + 1)
             /\ list[index + 1].meaning = "Parenco"

check_cis(index, list, last, e) ==
    IF index # 0 THEN FALSE
    ELSE LET difference == last - index
         IN  /\ difference > 0
             /\ Some(list, index + 1)
             /\ list[index + 1].meaning \in {"Rivero", "Monto", "Montaro"}

check_cxi(index, list, last, e) ==
    /\ index = 0
    /\ (type_of_ending(e) = "Adjective" \/ type_of_ending(e) = "Adverb")

check_eks(index, list, last, e) ==
    IF index # 0 THEN FALSE
    ELSE \E n \in (index + 1) .. last :
            Some(list, n) /\ is_person(list[n].meaning)

check_ge(index, list, last, e) ==
    IF index # 0 THEN FALSE
    ELSE \E n \in (index + 1) .. last :
            /\ Some(list, n)
            /\ (is_person(list[n].meaning) \/ is_animal(list[n].meaning))

check_kun(index, list, last, e) ==
    IF index # 0 THEN FALSE
    ELSE IF check_prepositional_prefix(index, list, last, e) THEN TRUE
    ELSE \E n \in (index + 1) .. last :
            Some(list, n) /\ list[n].part_of_speech = "Substantive"

check_mal(index, list, last, e) ==
    IF index # 0 THEN FALSE
    ELSE IF last > 0 /\ type_of_ending(e) \in {"Verb", "Adjective", "Adverb"}
    THEN TRUE
    ELSE \E n \in (index + 1) .. last :
            /\ Some(list, n)
            /\ list[n].part_of_speech \in {"Verb", "SubstantiveVerb", "Adjective"}

check_ne(index, list, last, e) ==
    IF index # 0 THEN FALSE
    ELSE IF last > 0 /\ type_of_ending(e) \in {"Adjective", "Adverb"}
    THEN TRUE
    ELSE \E n \in (index + 1) .. last :
            /\ Some(list, n)
            /\ \/ list[n].part_of_speech = "Adjective"
               \/ list[n].part_of_speech = "Participle"
               \/ list[n].word = <<"a","d">>
               \/ list[n].word = <<"e","c">>

check_po(index, list, last, e) ==
    IF index # 0 THEN FALSE
    ELSE last > 0 /\ type_of_ending(e) = "Adverb"

check_pra(index, list, last, e) ==
    IF index # 0 THEN FALSE
    ELSE LET diff == last - index
         IN  \/ /\ diff > 0
                /\ Some(list, index + 1)
                /\ list[index + 1].part_of_speech \in {"Substantive", "SubstantiveVerb"}
             \/ /\ diff > 1
                /\ Some(list, index + 2)
                /\ list[index + 2].part_of_speech = "Participle"

check_pseuxdo(index, list, last, e) ==
    IF index # 0 THEN FALSE
    ELSE LET diff == last - index
         IN  /\ diff > 0
             /\ Some(list, index + 1)
             /\ list[index + 1].part_of_speech
                    \in {"Substantive", "SubstantiveVerb", "Adjective"}

check_sen(index, list, last, e) ==
    IF index # 0 THEN FALSE
    ELSE IF check_prepositional_prefix(index, list, last, e) THEN TRUE
    ELSE /\ Some(list, last)
         /\ list[last].word \in {<<"u","l">>, <<"a","jx">>, <<"e","j">>}

check_sin(index, list, last, e) ==
    IF index # 0 THEN FALSE
    ELSE \E n \in (index + 1) .. last :
            Some(list, n) /\ list[n].transitivity = "Transitive"

check_sub_super_sur(index, list, last, e) ==
    IF check_prepositional_prefix(index, list, last, e) THEN TRUE
    ELSE last > 0 /\ type_of_ending(e) \in {"Substantive", "SubstantiveVerb"}

PrepositionalPrefixes ==
    { <<"a","l">>, <<"a","p","u","d">>, <<"cx","e">>, <<"d","e">>, <<"d","u","m">>,
      <<"e","l">>, <<"e","n">>, <<"gx","i","s">>, <<"l","a","ux">>, <<"p","e","r">>,
      <<"p","o","r">>, <<"p","o","s","t">>, <<"p","r","e","t","e","r">>,
      <<"p","r","i">>, <<"p","r","o">>, <<"t","r","a">>, <<"t","r","a","n","s">> }

FirstPrefixes ==
    { <<"a","n","s","t","a","t","a","ux">>, <<"a","n","t","a","ux">>,
      <<"cx","i","r","k","a","ux">>, <<"e","k","s","t","e","r">>,
      <<"i","n","t","e","r">>, <<"k","o","n","t","r","a","ux">>, <<"k","r","o","m">>,
      <<"r","e","t","r","o">> }

AdverbialPrefixes ==
    { <<"d","i","s">>, <<"e","k">>, <<"f","o","r">>, <<"m","i","s">>,
      <<"p","l","i">>, <<"r","e">> }

check_prefix(prefix, index, list, last, e) ==
    IF Some(list, index) /\ list[index].part_of_speech = "TechPrefix"
    THEN index = 0
    ELSE CASE prefix \in PrepositionalPrefixes ->
                 check_prepositional_prefix(index, list, last, e)
           [] prefix \in FirstPrefixes -> check_first(index, list, last, e)
           [] prefix \in AdverbialPrefixes ->
                 check_adverbial_prefix(index, list, last, e)
           [] prefix = <<"b","o">> -> check_bo(index, list, last, e)
           [] prefix = <<"c","i","s">> -> check_cis(index, list, last, e)
           [] prefix = <<"cx","i">> -> check_cxi(index, list, last, e)
           [] prefix = <<"e","k","s">> -> check_eks(index, list, last, e)
           [] prefix = <<"g","e">> -> check_ge(index, list, last, e)
           [] prefix = <<"k","u","n">> -> check_kun(index, list, last, e)
           [] prefix = <<"m","a","l">> -> check_mal(index, list, last, e)
           [] prefix = <<"n","e">> -> check_ne(index, list, last, e)
           [] prefix = <<"p","o">> -> check_po(index, list, last, e)
           [] prefix = <<"p","r","a">> -> check_pra(index, list, last, e)
           [] prefix = <<"p","s","e","ux","d","o">> -> check_pseuxdo(index, list, last, e)
           [] prefix = <<"s","e","n">> -> check_sen(index, list, last, e)
           [] prefix = <<"s","i","n">> -> check_sin(index, list, last, e)
           [] prefix \in {<<"s","u","b">>, <<"s","u","p","e","r">>, <<"s","u","r">>} ->
                 check_sub_super_sur(index, list, last, e)
           [] OTHER -> FALSE

check_limited_synthesis_before(morpheme, index, list, last, e) ==
    IF ~Some(list, index) THEN FALSE
    ELSE LET pos     == list[index].part_of_speech
             meaning == list[index].meaning
             hasPrev == index > 0 /\ Some(list, index - 1)
             hasNext == index < last /\ Some(list, index + 1)
         IN  IF pos = "Verb" \/ pos = "SubstantiveVerb" THEN
                 hasPrev => list[index - 1].synthesis = "Prefix"
             ELSE IF meaning = "Parenco" THEN
                 /\ hasPrev => list[index - 1].word
                                  \in {<<"b","o">>, <<"g","e">>, <<"p","r","a">>}
                 /\ hasNext => list[index + 1].word = <<"i","n">>
             ELSE IF is_animal(meaning) THEN
                 /\ hasPrev => list[index - 1].word = <<"v","i","r">>
                 /\ hasNext => list[index + 1].word
                                  \in {<<"i","n">>, <<"i","d">>, <<"a","jx">>, <<"o","v">>}
             ELSE IF meaning = "Etno" THEN
                 /\ hasPrev => list[index - 1].word = <<"g","e">>
                 /\ hasNext => list[index + 1].word
                                  \in {<<"i","n">>, <<"i","d">>, <<"l","a","n","d">>,
                                       <<"s","t","i","l">>}
             ELSE TRUE

check_limited_synthesis(morpheme, index, list, last, e) ==
    IF ~Some(list, index) THEN FALSE
    ELSE LET pos     == list[index].part_of_speech
             meaning == list[index].meaning
             hasPrev == index > 0 /\ Some(list, index - 1)
             hasNext == index < last /\ Some(list, index + 1)
         IN  IF pos = "Verb" \/ pos = "SubstantiveVerb" THEN
                 /\ hasPrev => list[index - 1].synthesis = "Prefix"
                 /\ hasNext => list[index + 1].synthesis \in {"Suffix", "Participle"}
             ELSE IF meaning = "Parenco" THEN
                 /\ hasPrev => list[index - 1].word
                                  \in {<<"b","o">>, <<"g","e">>, <<"p","r","a">>}
                 /\ hasNext => list[index + 1].word = <<"i","n">>
             ELSE IF is_animal(meaning) THEN
                 /\ hasPrev => list[index - 1].word = <<"v","i","r">>
                 /\ hasNext => list[index + 1].word
                                  \in {<<"i","n">>, <<"i","d">>, <<"a","jx">>, <<"o","v">>}
             ELSE IF meaning = "Etno" THEN
                 /\ hasPrev => list[index - 1].word = <<"g","e">>
                 /\ hasNext => list[index + 1].word
                                  \in {<<"i","n">>, <<"i","d">>, <<"l","a","n","d">>,
                                       <<"s","t","i","l">>}
             ELSE TRUE

valid_separator_any_ending(pos, index, list, last, e) ==
    IF index = 0 THEN FALSE
    ELSE IF ~Some(list, index - 1) THEN FALSE
    ELSE LET previous_pos == list[index - 1].part_of_speech
         IN  IF pos = "Substantive" /\ pos_gt(previous_pos, "Adjective") THEN FALSE
             ELSE IF pos = "Adjective" \/ pos = "Adverb"
             THEN ~pos_gt(previous_pos, "Adverb")
             ELSE TRUE

valid_separator(pos, index, list, last, e) ==
    IF index = 0 THEN FALSE
    ELSE IF ~Some(list, index - 1) THEN FALSE
    ELSE LET previous_pos == list[index - 1].part_of_speech
         IN  IF pos = "Substantive" /\ pos_gt(previous_pos, "Adjective") THEN FALSE
             ELSE IF pos = "Adjective" \/ pos = "Adverb" THEN
                 IF type_of_ending(e) # "Adjective" /\ type_of_ending(e) # "Adverb"
                 THEN FALSE
                 ELSE ~pos_gt(previous_pos, "Adverb")
             ELSE TRUE

check_participle_any_verb(index, list, last, e) ==
    IF index = 0 THEN FALSE
    ELSE IF ~Some(list, index) \/ ~Some(list, index - 1) THEN FALSE
    ELSE IF index < last /\ ~Some(list, index + 1) THEN FALSE
    ELSE LET participle_string == list[index].word
             previous_entry    == list[index - 1]
             previous_pos      == previous_entry.part_of_speech
             next_string       == IF index < last THEN list[index + 1].word ELSE <<>>
         IN  IF previous_pos = "Verb" \/ previous_pos = "SubstantiveVerb" THEN
                 IF index < last
                 THEN next_string \in {<<"a","jx">>, <<"u","l">>, <<"i","n">>,
                                       <<"e","c">>, <<"a","r">>}
                 ELSE TRUE
             ELSE previous_entry.word
                     \in {<<"a","n","t","a","ux">>, <<"a","n","s","t","a","t","a","ux">>,
                          <<"cx","i","r","k","a","ux">>, <<"k","o","n","t","r","a","ux">>,
                          <<"s","u","p","e","r">>}

check_participle(index, list, last, e) ==
    IF index = 0 THEN FALSE
    ELSE IF ~Some(list, index) \/ ~Some(list, index - 1) THEN FALSE
    ELSE IF index < last /\ ~Some(list, index + 1) THEN FALSE
    ELSE LET participle_string == list[index].word
             previous_entry    == list[index - 1]
             previous_pos      == previous_entry.part_of_speech
             next_string       == IF index < last THEN list[index + 1].word ELSE <<>>
         IN  IF previous_pos = "Verb" \/ previous_pos = "SubstantiveVerb" THEN
                 IF byte_len(participle_string) = 2
                    /\ previous_entry.transitivity # "Transitive"
                 THEN FALSE
                 ELSE IF index < last
                 THEN next_string \in {<<"a","jx">>, <<"u","l">>, <<"i","n">>,
                                       <<"e","c">>, <<"a","r">>}
                 ELSE TRUE
             ELSE previous_entry.word
                     \in {<<"a","n","t","a","ux">>, <<"a","n","s","t","a","t","a","ux">>,
                          <<"cx","i","r","k","a","ux">>, <<"k","o","n","t","r","a","ux">>,
                          <<"s","u","p","e","r">>}

scan_slot_prefix_last(index, list, last, e) ==
    IF ~Some(list, index) THEN FALSE
    ELSE LET entry    == list[index]
             syn      == entry.synthesis
             pos      == entry.part_of_speech
             morpheme == entry.word
         IN  /\ entry.flag = "Separator" => valid_separator(pos, index, list, last, e)
             /\ IF syn = "Prefix"
                THEN check_prefix(morpheme, index, list, last, e)
                ELSE IF syn = "Participle" THEN check_participle(index, list, last, e)
                ELSE IF syn = "Limited"
                THEN check_limited_synthesis(morpheme, index, list, last, e)
                ELSE TRUE

\* The body of scan_morphemes' loop for one slot.
scan_slot(index, list, last, e) ==
    IF ~Some(list, index) THEN FALSE
    ELSE LET entry    == list[index]
             syn      == entry.synthesis
             pos      == entry.part_of_speech
             morpheme == entry.word
         IN  /\ entry.flag = "Separator" => valid_separator(pos, index, list, last, e)
             /\ IF syn = "Prefix"
                THEN index # last /\ check_prefix(morpheme, index, list, last, e)
                ELSE IF syn = "Participle" THEN check_participle(index, list, last, e)
                ELSE IF syn = "Limited"
                THEN check_limited_synthesis(morpheme, index, list, last, e)
                ELSE TRUE

scan_morphemes(list, last, e) ==
    IF count_separators(list, last) > 1 THEN FALSE
    ELSE \A index \in 0 .. last : scan_slot(index, list, last, e)

-----------------------------------------------------------------------------
(* src/src/check_word.rs                                                   *)

NoResult == [done |-> FALSE, word |-> <<>>, valid |-> FALSE]

NoCalls == [c \in {"lookup", "ending", "find", "put", "scan"} |-> 0]

\* AnalysisResult::new: restore_capitals, then the struct.  A panic inside
\* restore_capitals unwinds out of check_word: no result is returned.
AnalysisResult_new(original, analyzed, valid) ==
    LET r == restore_capitals(original, analyzed)
    IN  IF r.panic THEN [panic |-> TRUE, res |-> NoResult]
        ELSE [panic |-> FALSE,
              res   |-> [done |-> TRUE, word |-> r.text, valid |-> valid]]

\* The match of the exceptions in check_word: the divided form, <<>> if none.
exception_form(w) ==
    CASE w = <<"gx","i","n">> -> <<"gx","i",".","n">>
      [] w = <<"l","i","n">> -> <<"l","i",".","n">>
      [] w = <<"m","i","n">> -> <<"m","i",".","n">>
      [] w = <<"s","i","n">> -> <<"s","i",".","n">>
      [] w = <<"v","i","n">> -> <<"v","i",".","n">>
      [] w = <<"l","i","a","n">> -> <<"l","i",".","a","n">>
      [] w = <<"c","i","a","n">> -> <<"c","i",".","a","n">>
      [] OTHER -> <<>>

\* An exception test that stops at three characters.
is_exception_short(w) == Len(w) < 4 /\ byte_len(exception_form(w)) > 0

is_exception(w) == Len(w) < 5 /\ byte_len(exception_form(w)) > 0

\* The test the token's second character for an abbreviation.
is_abbreviation(t) == Len(t) > 2 /\ is_hyphen(t[2])

\* dictionary.get(key) is Some(entry).
contains_key(map, key) == key \in DOMAIN map

\* A stem that drops one character whatever the length of the ending.
word_without_ending_one(w, e) == SubSeq(w, 1, Len(w) - 1)

\* word minus its ending: word.chars().take(length_of_word - ending.length).
word_without_ending(w, e) == SubSeq(w, 1, Len(w) - e.length)

\* A depth test that is one too late.
depth_exceeded_late(index) == index > MAX_MORPHEMES

\* find_morpheme's first test.
depth_exceeded(index) == index >= MAX_MORPHEMES

\* "Do we allow this morpheme to join with others?"
joins(map, key) == contains_key(map, key) /\ map[key].synthesis # "No"

\* The candidates of one call of find_morpheme on a rest of L characters,
\* numbered in the order they are tried: L is the whole rest (index > 0
\* only), then the sizes of the loop (min_length .. max_length).rev(), that
\* is max_length - 1 down to 2, then 1 for the separator, then 0: none left.
min_length == 2
\* A loop bound that lets a morpheme take all but one character.
max_length_whole(rest) == Len(rest)

max_length(rest) == Len(rest) - 1

first_size(rest) ==
    IF max_length(rest) - 1 >= min_length THEN max_length(rest) - 1 ELSE 1

\* A test that lets the first call try the whole stem too.
whole_tried_always(index) == TRUE

\* find_morpheme: `if index > 0`, the whole rest is looked up.
whole_tried(index) == index > 0

\* A first candidate that is never the whole rest.
first_candidate_loop(rest, index) == first_size(rest)

first_candidate(rest, index) ==
    IF whole_tried(index) THEN Len(rest) ELSE first_size(rest)

\* A loop that steps down by two.
next_candidate_skip(rest, cand) ==
    IF cand = Len(rest) THEN first_size(rest)
    ELSE IF cand - 2 >= min_length THEN cand - 2
    ELSE IF cand > 1 THEN 1
    ELSE 0

next_candidate(rest, cand) ==
    IF cand = Len(rest) THEN first_size(rest)
    ELSE IF cand - 1 >= min_length THEN cand - 1
    ELSE IF cand > 1 THEN 1
    ELSE 0

\* A call of find_morpheme(rest_of_word, dictionary, index, morpheme_list);
\* tried is history: the candidates this call has tried so far, in order.
Frame(rest, index) ==
    [rest |-> rest, index |-> index, cand |-> first_candidate(rest, index),
     tried |-> << >>]

\* check_synthesis up to its recursion: the suffix rule of the morpheme just
\* placed at index.
check_synthesis_suffix(index, list) ==
    IF ~Some(list, index) THEN reject(list)
    ELSE IF list[index].synthesis = "Suffix"
    THEN check_suffix(list[index].word, index, list)
    ELSE accept(list)

\* A check_synthesis that goes on whatever the suffix rule returned.
check_synthesis_then_unchecked(valid, last_morpheme) ==
    IF last_morpheme THEN "scan" ELSE "find"

\* check_synthesis after the suffix rule: nothing more when the rule
\* rejected, else find_morpheme on the rest or, for the last morpheme,
\* scan_morphemes.
check_synthesis_then(valid, last_morpheme) ==
    IF ~valid THEN "none"
    ELSE IF ~last_morpheme THEN "find"
    ELSE "scan"

\* A placement that hands the map's own entry to the suffix rules.
dictionary_shared(map, key, slot) == [map EXCEPT ![key] = slot]

\* The map after the entry of key was placed and the suffix rule rewrote
\* the slot: put stores entry.clone(), and find_morpheme borrows the map
\* immutably.
dictionary_after_put(map, key, slot) == map

\* put(index, entry) followed by check_synthesis up to its recursion.
Place(index, entry, last_morpheme) ==
    LET placed == put(morpheme_list, index, entry)
        syn    == check_synthesis_suffix(index, placed)
    IN  [list   |-> syn.list,
         suffix |-> IF entry.synthesis # "Suffix" THEN "none"
                    ELSE IF syn.valid THEN "accepted" ELSE "rejected",
         then   |-> check_synthesis_then(syn.valid, last_morpheme)]

\* One candidate as the history records it.
Try(cand, placed, suffix, then) ==
    [cand |-> cand, placed |-> placed, suffix |-> suffix, then |-> then]

NotPlaced(cand) == Try(cand, FALSE, "none", "none")

Top == stack[Len(stack)]
Pop == SubSeq(stack, 1, Len(stack) - 1)
Log(t) == [stack EXCEPT ![Len(stack)].tried = Append(@, t)]
Moved(t) ==
    [stack EXCEPT ![Len(stack)].tried = Append(@, t),
                  ![Len(stack)].cand = next_candidate(Top.rest, Top.cand)]

\* The test before the separator: index == 0 || length_of_word < 3 returns
\* false.
separator_allowed_first(rest, index) == ~(Len(rest) < 3)

separator_allowed(rest, index) == ~(index = 0 \/ Len(rest) < 3)

Finish(r) ==
    /\ pc' = IF r.panic THEN "panic" ELSE "done"
    /\ result' = r.res

Ran(what) == calls' = [calls EXCEPT ![what] = @ + 1]

\* check_word, length_of_word == 1: a single letter.
SingleLetter ==
    /\ pc = "start"
    /\ Len(token) = 1
    /\ Finish(AnalysisResult_new(token, token, is_word_char(token[1])))
    /\ UNCHANGED <<run, first, source, token, dictionary, original_word, word, ending,
                   morpheme_list, last_index, stack, calls>>

\* check_word, the abbreviations: the lowercased token is looked up whole.
Abbreviation ==
    /\ pc = "start"
    /\ Len(token) # 1
    /\ is_abbreviation(token)
    /\ word' = to_lowercase(token)
    /\ Finish(AnalysisResult_new(token, word', contains_key(dictionary, word')))
    /\ Ran("lookup")
    /\ UNCHANGED <<run, first, source, token, dictionary, original_word, ending,
                   morpheme_list, last_index, stack>>

\* check_word: remove the hyphens, lowercase.
Normalize ==
    /\ pc = "start"
    /\ Len(token) # 1
    /\ ~is_abbreviation(token)
    /\ original_word' = remove_hyphens(token)
    /\ word' = to_lowercase(original_word')
    /\ pc' = "normalized"
    /\ UNCHANGED <<run, first, source, token, dictionary, ending, morpheme_list, last_index,
                   stack, result, calls>>

\* check_word: the exceptions.
Exception ==
    /\ pc = "normalized"
    /\ is_exception(word)
    /\ Finish(AnalysisResult_new(original_word, exception_form(word), TRUE))
    /\ UNCHANGED <<run, first, source, token, dictionary, original_word, word, ending,
                   morpheme_list, last_index, stack, calls>>

\* check_word: a word of the dictionary that stands without ending.
WithoutEnding ==
    /\ pc = "normalized"
    /\ ~is_exception(word)
    /\ contains_key(dictionary, word)
    /\ dictionary[word].without_ending = "Yes"
    /\ Finish(AnalysisResult_new(original_word, dictionary[word].word, TRUE))
    /\ Ran("lookup")
    /\ UNCHANGED <<run, first, source, token, dictionary, original_word, word, ending,
                   morpheme_list, last_index, stack>>

\* check_word: Ending::new finds no ending.
NoEndingFound ==
    /\ pc = "normalized"
    /\ ~is_exception(word)
    /\ ~(contains_key(dictionary, word) /\ dictionary[word].without_ending = "Yes")
    /\ Ending_new(word) = NoEnding
    /\ Finish(AnalysisResult_new(original_word, word, FALSE))
    /\ calls' = [calls EXCEPT !["lookup"] = @ + 1, !["ending"] = @ + 1]
    /\ UNCHANGED <<run, first, source, token, dictionary, original_word, word, ending,
                   morpheme_list, last_index, stack>>

\* check_word: Ending::new finds an ending.
EndingFound ==
    /\ pc = "normalized"
    /\ ~is_exception(word)
    /\ ~(contains_key(dictionary, word) /\ dictionary[word].without_ending = "Yes")
    /\ Ending_new(word) # NoEnding
    /\ ending' = Ending_new(word)
    /\ pc' = "stem"
    /\ calls' = [calls EXCEPT !["lookup"] = @ + 1, !["ending"] = @ + 1]
    /\ UNCHANGED <<run, first, source, token, dictionary, original_word, word,
                   morpheme_list, last_index, stack, result>>

\* check_word: the word without its ending is a root that takes an ending.
RootWithEnding ==
    LET stem == word_without_ending(word, ending)
    IN  /\ pc = "stem"
        /\ contains_key(dictionary, stem)
        /\ dictionary[stem].with_ending = "Yes"
        /\ Finish(AnalysisResult_new(original_word,
                      dictionary[stem].word \o <<".">> \o ending.ending, TRUE))
        /\ Ran("lookup")
        /\ UNCHANGED <<run, first, source, token, dictionary, original_word, word, ending,
                       morpheme_list, last_index, stack>>

\* check_word: Morphemes::new and the call find_morpheme(stem, 0).
StartSearch ==
    LET stem == word_without_ending(word, ending)
    IN  /\ pc = "stem"
        /\ ~(contains_key(dictionary, stem) /\ dictionary[stem].with_ending = "Yes")
        /\ morpheme_list' = Morphemes_new
        /\ last_index' = 0
        /\ stack' = <<Frame(stem, 0)>>
        /\ pc' = "search"
        /\ calls' = [calls EXCEPT !["lookup"] = @ + 1, !["find"] = @ + 1]
        /\ UNCHANGED <<run, first, source, token, dictionary, original_word, word, ending, result>>

\* find_morpheme: index >= MAX_MORPHEMES, return false.
DepthExceeded ==
    /\ pc = "search"
    /\ stack # <<>>
    /\ depth_exceeded(Top.index)
    /\ stack' = Pop
    /\ UNCHANGED <<run, first, source, token, dictionary, pc, original_word, word, ending,
                   morpheme_list, last_index, result, calls>>

\* find_morpheme, index > 0: the whole rest as the last morpheme;
\* check_synthesis(.., last_morpheme = true) runs the suffix rule and then
\* scan_morphemes.
TryWhole ==
    /\ pc = "search"
    /\ stack # <<>>
    /\ ~depth_exceeded(Top.index)
    /\ whole_tried(Top.index)
    /\ Top.cand = Len(Top.rest)
    /\ IF joins(dictionary, Top.rest)
       THEN IF put_panics(Top.index)
            THEN /\ pc' = "panic_put"
                 /\ UNCHANGED <<dictionary, morpheme_list, last_index, stack, calls>>
            ELSE LET p     == Place(Top.index, dictionary[Top.rest], TRUE)
                     valid == p.then = "scan"
                              /\ scan_morphemes(p.list, Top.index, ending)
                     t     == Try(Top.cand, TRUE, p.suffix, p.then)
                 IN  /\ morpheme_list' = p.list
                     /\ last_index' = Top.index
                     /\ dictionary' = dictionary_after_put(dictionary, Top.rest,
                                                           p.list[Top.index])
                     /\ calls' = [calls EXCEPT
                            !["lookup"] = @ + 1,
                            !["put"] = @ + 1,
                            !["scan"] = @ + (IF p.then = "scan" THEN 1 ELSE 0),
                            !["find"] = @ + (IF p.then = "find" THEN 1 ELSE 0)]
                     /\ IF valid
                        THEN pc' = "found" /\ stack' = Log(t)
                        ELSE pc' = pc /\ stack' = Moved(t)
       ELSE /\ stack' = Moved(NotPlaced(Top.cand))
            /\ Ran("lookup")
            /\ UNCHANGED <<dictionary, pc, morpheme_list, last_index>>
    /\ UNCHANGED <<run, first, source, token, original_word, word, ending, result>>

\* find_morpheme, the loop: the first size characters of the rest as a
\* morpheme; check_synthesis(.., last_morpheme = false) runs the suffix rule
\* and then calls find_morpheme on what is left, at index + 1.
TryPrefix ==
    /\ pc = "search"
    /\ stack # <<>>
    /\ ~depth_exceeded(Top.index)
    /\ Top.cand >= min_length
    /\ Top.cand < max_length(Top.rest)
    /\ LET size     == Top.cand
           morpheme == SubSeq(Top.rest, 1, size)
           rest     == SubSeq(Top.rest, size + 1, Len(Top.rest))
       IN  IF joins(dictionary, morpheme)
           THEN IF put_panics(Top.index)
                THEN /\ pc' = "panic_put"
                     /\ UNCHANGED <<dictionary, morpheme_list, last_index, stack, calls>>
                ELSE LET p == Place(Top.index, dictionary[morpheme], FALSE)
                         t == Try(size, TRUE, p.suffix, p.then)
                     IN  /\ morpheme_list' = p.list
                         /\ last_index' = Top.index
                         /\ dictionary' = dictionary_after_put(dictionary, morpheme,
                                                               p.list[Top.index])
                         /\ pc' = pc
                         /\ calls' = [calls EXCEPT
                                !["lookup"] = @ + 1,
                                !["put"] = @ + 1,
                                !["scan"] = @ + (IF p.then = "scan" THEN 1 ELSE 0),
                                !["find"] = @ + (IF p.then = "find" THEN 1 ELSE 0)]
                         /\ stack' = IF p.then = "find"
                                     THEN Append(Moved(t), Frame(rest, Top.index + 1))
                                     ELSE Moved(t)
           ELSE /\ stack' = Moved(NotPlaced(size))
                /\ Ran("lookup")
                /\ UNCHANGED <<dictionary, pc, morpheme_list, last_index>>
    /\ UNCHANGED <<run, first, source, token, original_word, word, ending, result>>

\* find_morpheme, after the loop: the first character of the rest as a
\* separator, then find_morpheme on what is left, at index + 1.
TrySeparator ==
    /\ pc = "search"
    /\ stack # <<>>
    /\ ~depth_exceeded(Top.index)
    /\ Top.cand = 1
    /\ IF ~separator_allowed(Top.rest, Top.index)
       THEN /\ stack' = Pop
            /\ UNCHANGED <<pc, morpheme_list, last_index, calls>>
       ELSE LET separator == SubSeq(Top.rest, 1, 1)
                entry     == Entry_new_separator(separator)
                rest      == SubSeq(Top.rest, 2, Len(Top.rest))
            IN  IF entry = NoEntry
                THEN /\ stack' = Moved(NotPlaced(1))
                     /\ UNCHANGED <<pc, morpheme_list, last_index, calls>>
                ELSE IF put_panics(Top.index)
                THEN /\ pc' = "panic_put"
                     /\ UNCHANGED <<morpheme_list, last_index, stack, calls>>
                ELSE LET p == Place(Top.index, entry, FALSE)
                         t == Try(1, TRUE, p.suffix, p.then)
                     IN  /\ morpheme_list' = p.list
                         /\ last_index' = Top.index
                         /\ pc' = pc
                         /\ calls' = [calls EXCEPT
                                !["put"] = @ + 1,
                                !["scan"] = @ + (IF p.then = "scan" THEN 1 ELSE 0),
                                !["find"] = @ + (IF p.then = "find" THEN 1 ELSE 0)]
                         /\ stack' = IF p.then = "find"
                                     THEN Append(Moved(t), Frame(rest, Top.index + 1))
                                     ELSE Moved(t)
    /\ UNCHANGED <<run, first, source, token, dictionary, original_word, word, ending, result>>

\* find_morpheme: nothing matched, return false.
ReturnFalse ==
    /\ pc = "search"
    /\ stack # <<>>
    /\ ~depth_exceeded(Top.index)
    /\ Top.cand = 0
    /\ stack' = Pop
    /\ UNCHANGED <<run, first, source, token, dictionary, pc, original_word, word, ending,
                   morpheme_list, last_index, result, calls>>

\* check_word: find_morpheme(stem, 0) returned true.
Accepted ==
    /\ pc = "found"
    /\ Finish(AnalysisResult_new(original_word,
                  display_form(morpheme_list, last_index, ending), TRUE))
    /\ UNCHANGED <<run, first, source, token, dictionary, original_word, word, ending,
                   morpheme_list, last_index, stack, calls>>

\* check_word: find_morpheme(stem, 0) returned false.
Rejected ==
    /\ pc = "search"
    /\ stack = <<>>
    /\ Finish(AnalysisResult_new(original_word, word, FALSE))
    /\ UNCHANGED <<run, first, source, token, dictionary, original_word, word, ending,
                   morpheme_list, last_index, stack, calls>>

\* The rendered word of a finished analysis, its dots removed and lowercased,
\* is handed to check_word again.
Rerun ==
    /\ pc = "done"
    /\ run = 1
    /\ run' = 2
    /\ first' = result
    /\ token' = to_lowercase(remove_char(result.word, "."))
    /\ pc' = "start"
    /\ original_word' = << >>
    /\ word' = << >>
    /\ ending' = NoEnding
    /\ morpheme_list' = Morphemes_new
    /\ last_index' = 0
    /\ stack' = << >>
    /\ result' = NoResult
    /\ calls' = NoCalls
    /\ UNCHANGED <<source, dictionary>>

\* make_dictionary, one turn of its loop: the next line of the data is
\* skipped or inserted.
ReadLine ==
    /\ pc = "read"
    /\ source # << >>
    /\ dictionary' = make_dictionary_from(dictionary, <<Head(source)>>)
    /\ source' = Tail(source)
    /\ UNCHANGED <<run, first, token, pc, original_word, word, ending,
                   morpheme_list, last_index, stack, result, calls>>

\* make_dictionary: no line is left, the map is returned.
ReturnDictionary ==
    /\ pc = "read"
    /\ source = << >>
    /\ pc' = "made"
    /\ UNCHANGED <<run, first, source, token, dictionary, original_word, word,
                   ending, morpheme_list, last_index, stack, result, calls>>

\* find_morpheme's placement on its own: the entry of the next row is put
\* into the next slot and check_synthesis runs on it, as the last morpheme
\* when no row is left; stack is history here, one record for each
\* placement.
PlaceMorpheme ==
    /\ pc = "place"
    /\ source # << >>
    /\ LET entry == Entry_new(Head(source))
           index == calls["put"]
           p     == Place(index, entry, Len(source) = 1)
       IN  /\ morpheme_list' = p.list
           /\ last_index' = index
           /\ source' = Tail(source)
           /\ stack' = Append(stack, Try(index, TRUE, p.suffix, p.then))
           /\ calls' = [calls EXCEPT
                  !["put"] = @ + 1,
                  !["scan"] = @ + (IF p.then = "scan" THEN 1 ELSE 0),
                  !["find"] = @ + (IF p.then = "find" THEN 1 ELSE 0)]
           /\ IF p.then = "find"
              THEN UNCHANGED <<pc, result>>
              ELSE /\ pc' = "placed"
                   /\ result' = [done  |-> TRUE,
                                 word  |-> display_form(p.list, index, ending),
                                 valid |-> p.then = "scan"
                                           /\ scan_morphemes(p.list, index, ending)]
    /\ UNCHANGED <<run, first, token, dictionary, original_word, word, ending>>

\* Ending::new called on its own.
CallEnding ==
    /\ pc = "ending_call"
    /\ ending' = Ending_new(token)
    /\ pc' = "ending_done"
    /\ UNCHANGED <<run, first, source, token, dictionary, original_word, word,
                   morpheme_list, last_index, stack, result, calls>>

Next ==
    \/ Rerun
    \/ SingleLetter
    \/ Abbreviation
    \/ Normalize
    \/ Exception
    \/ WithoutEnding
    \/ NoEndingFound
    \/ EndingFound
    \/ RootWithEnding
    \/ StartSearch
    \/ DepthExceeded
    \/ TryWhole
    \/ TryPrefix
    \/ TrySeparator
    \/ ReturnFalse
    \/ Accepted
    \/ Rejected

-----------------------------------------------------------------------------
(* The inputs: dictionary data in the format make_dictionary reads, and    *)
(* tokens as the tokenizer of analyze_file hands them to check_word.       *)

\* Rows of dictionary data, split at white space.
BaseData == <<
    << <<"#">>, "Vortaro" >>,
    << >>,
    << <<"v","i","n">>, "SUBST", "TRINKAJXO", "N", "N", "KF", "NLM", 1, "R" >>,
    << <<"v","i">>, "PRONOMO", "N", "N", "SF", "KF", "N", 0, "R" >>,
    << <<"n","e">>, "ADVERBO", "N", "N", "SF", "N", "P", 0, "R" >>,
    << <<"i",".","e">>, "ADVERBO", "N", "N", "SF", "N", "N", 1, "K" >>,
    << <<"v","-","e">>, "MALLONGIGO", "N", "N", "SF", "N", "N", 2, "R" >>,
    << <<"m","i","s">>, "PREFIKSO", "N", "N", "N", "N", "P", 1, "R" >>,
    << <<"d","i","r">>, "VERBO", "N", "T", "N", "KF", "NLM", 1, "R" >>,
    << <<"i","t">>, "PARTICIPO", "N", "N", "N", "N", "PRT", 1, "R" >>,
    << <<"h","u","n","d">>, "SUBST", "MAMULO", "N", "N", "KF", "NLM", 1, "R" >>,
    << <<"e","t">>, "SUFIKSO", "N", "N", "N", "KF", "S", 1, "R" >>,
    << <<"l","i","n">>, "PRONOMO", "N", "N", "SF", "N", "N", 0, "X" >>,
    << <<"d","u","m">>, "KONJUNKCIO" >>,
    << <<"e">>, "LITERO", "N", "N", "SF", "N", "N", 0, "R" >>
    >>

\* Rows added after BaseData; a later row replaces an earlier one of the
\* same key.
VariantData == {
    << >>,
    << << <<"v","i","n">>, "SUBST", "TRINKAJXO", "N", "SF", "KF", "NLM", 1, "R" >>,
       << <<"V","i">>, "PRONOMO", "N", "N", "SF", "KF", "N", 0, "R" >>,
       << <<"H","u","n","d",".","e","t">>, "SUBST", "MAMULO", "N", "N", "KF", "NLM", 2, "K" >> >>,
    << << <<"d","i","r">>, "VERBO", "N", "T", "N", "N", "NLM", 1, "R" >>,
       << <<"h","u","n","d",".","e","t">>, "SUBST", "MAMULO", "N", "N", "N", "N", 2, "K" >>,
       << <<"d","i","r","e">>, "SUBST", "N", "N", "N", "KF", "NLM", 2, "R" >> >>
    }

Dictionaries ==
    { make_dictionary(BaseData \o v) : v \in VariantData } \cup { make_dictionary(<< >>) }

\* Sequences of at most n elements of S.
SeqsUpTo(S, n) == UNION { [1..k -> S] : k \in 0..n }

RECURSIVE Concat(_)
Concat(parts) == IF parts = << >> THEN << >> ELSE Head(parts) \o Concat(Tail(parts))

\* Tokens spelled letter by letter.
TokenAlphabet == {"v", "i", "e", "V", "-", "shy", "Idot"}

ShortTokens == SeqsUpTo(TokenAlphabet, MaxLen)

\* Tokens assembled from morphemes, a separator letter and a hyphen,
\* followed by a grammatical ending.
Parts == { <<"m","i","s">>, <<"d","i","r">>, <<"i","t">>, <<"h","u","n","d">>,
           <<"e","t">>, <<"o">>, <<"-">> }

PartEndings == { <<"o">>, <<"a">>, <<"i","s">> }

PartTokens == { Concat(q) \o e : q \in SeqsUpTo(Parts, MaxParts), e \in PartEndings }

\* Long compounds: one root repeated, a separator letter after the first
\* roots, and a verb ending.
RECURSIVE Compound(_, _, _)
Compound(n, seps, k) ==
    IF k > n THEN <<"i">>
    ELSE <<"d","i","r">> \o (IF k \in seps THEN <<"o">> ELSE << >>)
         \o Compound(n, seps, k + 1)

DeepTokens ==
    { Compound(n, seps, 1) : n \in 1..MaxRepeat, seps \in SUBSET (1..MaxSeparators) }

\* The words check_word treats as exceptions, as written, capitalized and
\* hyphenated.
ExceptionTokens == {
    <<"gx","i","n">>, <<"l","i","n">>, <<"m","i","n">>, <<"s","i","n">>,
    <<"v","i","n">>, <<"l","i","a","n">>, <<"c","i","a","n">>,
    <<"Gx","i","n">>, <<"L","I","N">>, <<"m","i","shy","n">>, <<"S","i","n">>,
    <<"L","i","a","n">>, <<"l","i","-","a","n">>, <<"C","I","A","N">>,
    <<"c","i","a","-","n">>, <<"V","i","n">>, <<"v","i","-","n">>,
    <<"V","I","shy","N">>, <<"g","i","n">>, <<"l","i","a","j","n">> }

Tokens == ShortTokens \cup PartTokens \cup DeepTokens \cup ExceptionTokens

Init ==
    /\ dictionary \in Dictionaries
    /\ token \in Tokens
    /\ pc = "start"
    /\ original_word = << >>
    /\ word = << >>
    /\ ending = NoEnding
    /\ morpheme_list = Morphemes_new
    /\ last_index = 0
    /\ stack = << >>
    /\ result = NoResult
    /\ calls = NoCalls
    /\ run = 1
    /\ first = NoResult
    /\ source = << >>

Spec == Init /\ [][Next]_vars

\* Ending::new on its own, on every lowercase word over EndingAlphabet.
EndingAlphabet == {"a", "e", "i", "o", "u", "s", "n", "j", "t"}

EndingWords == SeqsUpTo(EndingAlphabet, MaxEndingLen)

InitEnding ==
    /\ token \in EndingWords
    /\ dictionary = make_dictionary(<< >>)
    /\ pc = "ending_call"
    /\ original_word = << >>
    /\ word = << >>
    /\ ending = NoEnding
    /\ morpheme_list = Morphemes_new
    /\ last_index = 0
    /\ stack = << >>
    /\ result = NoResult
    /\ calls = NoCalls
    /\ run = 1
    /\ first = NoResult
    /\ source = << >>

NextEnding == CallEnding

SpecEnding == InitEnding /\ [][NextEnding]_vars

\* make_dictionary on its own, on every text of at most MaxRows lines drawn
\* from RowPool: a comment, an empty line, a line with too few fields, a
\* single letter, texts with a period, a hyphen, a capital and an x-digraph,
\* flags R, K and X and a flag that is none of them, and two rows of one key.
RowPool == {
    << <<"#">>, "Vortaro" >>,
    << >>,
    << <<"d","u","m">>, "KONJUNKCIO" >>,
    << <<"e">>, "LITERO", "N", "N", "SF", "N", "N", 0, "R" >>,
    << <<"i",".","e">>, "ADVERBO", "N", "N", "SF", "N", "N", 1, "K" >>,
    << <<"v","-","e">>, "MALLONGIGO", "N", "N", "SF", "N", "N", 2, "R" >>,
    << <<"V","i">>, "PRONOMO", "N", "N", "SF", "KF", "N", 0, "R" >>,
    << <<"c","x","i">>, "ADVERBO", "N", "N", "SF", "N", "N", 0, "R" >>,
    << <<"l","i","n">>, "PRONOMO", "N", "N", "SF", "N", "N", 0, "X" >>,
    << <<"v","i">>, "PRONOMO", "N", "N", "SF", "KF", "N", 0, "Z" >> }

InitDictionary ==
    /\ source \in SeqsUpTo(RowPool, MaxRows)
    /\ dictionary = make_dictionary(<< >>)
    /\ pc = "read"
    /\ token = << >>
    /\ original_word = << >>
    /\ word = << >>
    /\ ending = NoEnding
    /\ morpheme_list = Morphemes_new
    /\ last_index = 0
    /\ stack = << >>
    /\ result = NoResult
    /\ calls = NoCalls
    /\ run = 1
    /\ first = NoResult

NextDictionary == ReadLine \/ ReturnDictionary

SpecDictionary == InitDictionary /\ [][NextDictionary]_vars

\* The suffix rules on their own: a first morpheme of every part of speech,
\* or a suffix, followed by at most MaxSuffixes suffixes, before the ending
\* -o.
POSCodes == {"SUBST", "SUBSTVERBO", "VERBO", "ADJ", "NUMERO", "ADVERBO", "PRONOMO",
             "PRONOMADJ", "PREPOZICIO", "KONJUNKCIO", "SUBJUNKCIO", "INTERJEKCIO",
             "PREFIKSO", "TEHXPREFIKSO", "SUFIKSO", "ARTIKOLO", "PARTICIPO",
             "MALLONGIGO", "LITERO"}

FirstRows ==
    { << <<"r","o">>, p, m, t, "N", "KF", "NLM", 1, "R" >> :
          p \in POSCodes, m \in {"N", "PERSONO", "MAMULO"}, t \in {"T", "N"} }

SuffixTexts == { <<"a","cx">>, <<"e","g">>, <<"e","t">>, <<"e","c">>,
                 <<"e","s","t","r">>, <<"i","s","t">>, <<"i","n">> }

SuffixRows == { << t, "SUFIKSO", "N", "N", "N", "KF", "S", 1, "R" >> : t \in SuffixTexts }

InitSuffix ==
    /\ source \in { <<r>> \o q : r \in FirstRows \cup SuffixRows,
                                  q \in SeqsUpTo(SuffixRows, MaxSuffixes) }
    /\ dictionary = make_dictionary(<< >>)
    /\ pc = "place"
    /\ token = << >>
    /\ original_word = << >>
    /\ word = << >>
    /\ ending = SUB_O
    /\ morpheme_list = Morphemes_new
    /\ last_index = 0
    /\ stack = << >>
    /\ result = NoResult
    /\ calls = NoCalls
    /\ run = 1
    /\ first = NoResult

NextSuffix == PlaceMorpheme

SpecSuffix == InitSuffix /\ [][NextSuffix]_vars

\* scan_morphemes on its own: every segmentation of at most MaxSlots
\* morphemes that check_synthesis lets through, before the endings -o, -a
\* and -i.  A row is a line of the dictionary; the two separators are the
\* entries find_morpheme makes for a linking vowel.
MaxSlots == 3

ScanRows ==
    { << <<"h","u","n","d">>, "SUBST", "MAMULO", "N", "N", "KF", "NLM", 1, "R" >>,
      << <<"p","a","t","r">>, "SUBST", "PARENCO", "N", "N", "KF", "LM", 1, "R" >>,
      << <<"r","e","g">>, "SUBST", "N", "N", "N", "KF", "LM", 1, "R" >>,
      << <<"d","i","r">>, "VERBO", "N", "T", "N", "KF", "NLM", 1, "R" >>,
      << <<"i","r">>, "VERBO", "N", "N", "N", "KF", "LM", 1, "R" >>,
      << <<"b","e","l">>, "ADJ", "N", "N", "N", "KF", "NLM", 1, "R" >>,
      << <<"f","o","r">>, "ADVERBO", "N", "N", "SF", "N", "NLM", 1, "R" >>,
      << <<"a","l">>, "PREPOZICIO", "N", "N", "SF", "N", "P", 1, "R" >>,
      << <<"a","n","t","a","u","x">>, "PREPOZICIO", "N", "N", "SF", "N", "P", 1, "R" >>,
      << <<"a","l","i">>, "PREFIKSO", "N", "N", "N", "N", "P", 1, "R" >>,
      << <<"m","e","g","a">>, "TEHXPREFIKSO", "N", "N", "N", "N", "P", 1, "R" >>,
      << <<"i","t">>, "PARTICIPO", "N", "N", "N", "KF", "PRT", 1, "R" >>,
      << <<"a","n","t">>, "PARTICIPO", "N", "N", "N", "KF", "PRT", 1, "R" >>,
      << <<"i","n">>, "SUFIKSO", "N", "N", "N", "KF", "S", 1, "R" >>,
      << <<"u","l">>, "SUFIKSO", "N", "N", "N", "KF", "S", 1, "R" >>,
      << <<"e","t">>, "SUFIKSO", "N", "N", "N", "KF", "S", 1, "R" >> }

ScanEntries ==
    { Entry_new(r) : r \in ScanRows }
        \cup { Entry_new_separator(<<c>>) : c \in {"o", "a"} }

\* The list find_morpheme has built when it has placed the morphemes s in
\* order: each is put in its slot and passed through check_synthesis.
RECURSIVE segmentation(_)
segmentation(s) ==
    IF s = << >> THEN accept(Morphemes_new)
    ELSE LET before == segmentation(SubSeq(s, 1, Len(s) - 1))
             index  == Len(s) - 1
             syn    == check_synthesis_suffix(index, put(before.list, index, s[Len(s)]))
         IN  [valid |-> before.valid /\ syn.valid, list |-> syn.list]

InitScan ==
    /\ \E s \in SeqsUpTo(ScanEntries, MaxSlots) :
          /\ s # << >>
          /\ segmentation(s).valid
          /\ morpheme_list = segmentation(s).list
          /\ last_index = Len(s) - 1
    /\ ending \in {SUB_O, ADJ_A, VERB_I}
    /\ pc = "scan"
    /\ source = << >>
    /\ dictionary = make_dictionary(<< >>)
    /\ token = << >>
    /\ original_word = << >>
    /\ word = << >>
    /\ stack = << >>
    /\ result = NoResult
    /\ calls = NoCalls
    /\ run = 1
    /\ first = NoResult

\* check_synthesis on the last morpheme: scan_morphemes(morpheme_list).
ScanMorphemes ==
    /\ pc = "scan"
    /\ pc' = "scanned"
    /\ calls' = [calls EXCEPT !["scan"] = @ + 1]
    /\ result' = [done  |-> TRUE,
                  word  |-> display_form(morpheme_list, last_index, ending),
                  valid |-> scan_morphemes(morpheme_list, last_index, ending)]
    /\ UNCHANGED <<run, first, source, token, dictionary, original_word, word,
                   ending, morpheme_list, last_index, stack>>

NextScan == ScanMorphemes

SpecScan == InitScan /\ [][NextScan]_vars

-----------------------------------------------------------------------------
(* The properties.                                                         *)

\* check_word has returned; it has panicked; it has ended either way.
Returned == pc = "done"
Panicked == pc \in {"panic", "panic_put"}
Ended == Returned \/ Panicked

\* A token as the tokenizer cuts it: word characters only.
IsToken(t) == \A i \in DOMAIN t : is_word_char(t[i])

HasHyphen(t) == \E i \in DOMAIN t : is_hyphen(t[i])

Normalized(t) == to_lowercase(remove_hyphens(t))

Undotted(s) == remove_char(s, ".")

DotPositions(s) == { i \in DOMAIN s : s[i] = "." }

SameCasing(a, b) ==
    /\ Len(a) = Len(b)
    /\ \A i \in DOMAIN a : is_uppercase(a[i]) <=> is_uppercase(b[i])

\* The word minus the text of the ending found.
Stem == SubSeq(word, 1, Len(word) - Len(ending.ending))

\* find_morpheme(stem, 0) has been called and has returned true / false.
SearchSucceeded == calls["find"] > 0 /\ pc \in {"found", "done", "panic"} /\ stack # << >>
SearchFailed == calls["find"] > 0 /\ pc \in {"done", "panic"} /\ stack = << >>

\* C1 (as the specification states it): for every token of word characters
\* and every dictionary, the rendered word, its dots ignored, has as many
\* characters as the token, each with the casing of the token's character at
\* the same position.
C1_Original ==
    (Ended /\ IsToken(token)) =>
        /\ Returned
        /\ Len(Undotted(result.word)) = Len(token)
        /\ SameCasing(Undotted(result.word), token)

\* C1: a token of word characters without any hyphen for which check_word
\* panics in restore_capitals and renders nothing.
C1_Witness ==
    /\ pc = "panic"
    /\ IsToken(token)
    /\ ~HasHyphen(token)
    /\ result = NoResult

\* C2 (as the specification states it): whenever the token, lowercased and
\* hyphen-stripped, is a key whose entry stands without ending, check_word
\* returns valid = true and renders the token itself, unchanged.
C2_Original ==
    (Ended /\ IsToken(token)
        /\ contains_key(dictionary, Normalized(token))
        /\ dictionary[Normalized(token)].without_ending = "Yes") =>
        /\ Returned
        /\ result.valid
        /\ result.word = token

\* C2 (amended): whenever a token longer than one character and not of
\* abbreviation form has a lowercased, hyphen-stripped form that is none of
\* the exception words and is a key whose entry stands without ending,
\* check_word returns valid = true; the rendered word is the token without
\* its hyphens, with a dot wherever the entry's text has one; so it is the
\* token itself when the token has no hyphen and the entry's text no dot.
C2_Amended ==
    (Ended /\ IsToken(token)
        /\ Len(token) > 1
        /\ ~(Len(token) > 2 /\ is_hyphen(token[2]))
        /\ Normalized(token) \notin
              { <<"gx","i","n">>, <<"l","i","n">>, <<"m","i","n">>, <<"s","i","n">>,
                <<"v","i","n">>, <<"l","i","a","n">>, <<"c","i","a","n">> }
        /\ contains_key(dictionary, Normalized(token))
        /\ dictionary[Normalized(token)].without_ending = "Yes") =>
        /\ Returned
        /\ result.valid
        /\ Undotted(result.word) = remove_hyphens(token)
        /\ DotPositions(result.word) = DotPositions(dictionary[Normalized(token)].word)
        /\ (~HasHyphen(token) /\ DotPositions(dictionary[Normalized(token)].word) = {}
               => result.word = token)

\* C2: a capitalized, hyphenated token whose entry stands without ending has
\* been rendered.
C2_Witness ==
    /\ Returned
    /\ run = 1
    /\ HasHyphen(token)
    /\ \E i \in DOMAIN token : is_uppercase(token[i])
    /\ Len(token) > 1
    /\ ~(Len(token) > 2 /\ is_hyphen(token[2]))
    /\ Normalized(token) # <<"v","i","n">>
    /\ contains_key(dictionary, Normalized(token))
    /\ dictionary[Normalized(token)].without_ending = "Yes"
    /\ result.valid

\* C3: whenever find_morpheme(stem, 0) returns true, last_index <= 8 and at
\* most one slot of 0..last_index is flagged Separator; put is never called
\* with an index of 9 or more (put sets last_index, and a call out of range
\* panics).
C3_Theorem ==
    /\ SearchSucceeded =>
          /\ last_index <= MAX_MORPHEMES - 1
          /\ Cardinality({ i \in 0..last_index :
                              morpheme_list[i].flag = "Separator" }) <= 1
    /\ pc # "panic_put"
    /\ last_index < MAX_MORPHEMES
    /\ calls["put"] > 0 => \A i \in 1..Len(stack) : stack[i].index <= MAX_MORPHEMES

\* C3: find_morpheme(stem, 0) has returned true with all nine slots used.
C3_Witness ==
    /\ pc = "found"
    /\ last_index = MAX_MORPHEMES - 1

\* C4 (as the specification states it): check_word on the rendered word,
\* dots removed and lowercased, returns the validity and the division of the
\* first run.
C4_Original ==
    (run = 2 /\ Ended) =>
        /\ Returned
        /\ result.valid = first.valid
        /\ to_lowercase(result.word) = to_lowercase(first.word)

\* C4: the second run has returned another validity than the first.
C4_Witness ==
    /\ run = 2
    /\ Returned
    /\ IsToken(token)
    /\ result.valid # first.valid

\* C5 (as the specification states it): check_word never panics on a token:
\* no index out of range into the original characters or the nine slots.
C5_Original == IsToken(token) => ~Panicked

\* C5: check_word has panicked in restore_capitals: the lowercased word has
\* more characters than the original.
C5_Witness ==
    /\ pc = "panic"
    /\ run = 1
    /\ IsToken(token)
    /\ Len(word) > Len(original_word)

\* C6 (as the specification states it): when the normalized word has no
\* recognized ending, or find_morpheme fails on its stem, check_word returns
\* valid = false and the normalized word undivided with the original casing:
\* the hyphen-stripped token.
C6_Original ==
    (Ended /\ IsToken(token)
        /\ \/ calls["ending"] > 0 /\ ending = NoEnding
           \/ SearchFailed) =>
        /\ Returned
        /\ ~result.valid
        /\ result.word = remove_hyphens(token)
        /\ to_lowercase(result.word) = word

\* C6: find_morpheme has failed and check_word has panicked instead of
\* returning valid = false.
C6_Witness ==
    /\ pc = "panic"
    /\ IsToken(token)
    /\ SearchFailed

\* The ending of a lowercase word as the specification describes the
\* cascade: its text, << >> for none.
SpecifiedEnding(w) ==
    LET n == Len(w)
    IN  IF n < 3 THEN << >>
        ELSE IF w[n] = "o" THEN <<"o">>
        ELSE IF w[n] = "s"
        THEN IF n >= 4 /\ w[n-1] \in {"a", "i", "o", "u"} THEN <<w[n-1], "s">> ELSE << >>
        ELSE IF w[n] = "n"
        THEN IF n >= 4 /\ w[n-1] \in {"o", "a", "e"} THEN <<w[n-1], "n">>
             ELSE IF n >= 5 /\ w[n-1] = "j" /\ w[n-2] \in {"o", "a"}
                  THEN <<w[n-2], "j", "n">>
             ELSE << >>
        ELSE IF w[n] = "j"
        THEN IF n >= 4 /\ w[n-1] \in {"o", "a"} THEN <<w[n-1], "j">> ELSE << >>
        ELSE IF w[n] \in {"a", "e", "i", "u"} THEN <<w[n]>>
        ELSE << >>

FixedSplits == {
    << <<"gx","i","n">>, <<"gx","i",".","n">> >>,
    << <<"l","i","n">>, <<"l","i",".","n">> >>,
    << <<"m","i","n">>, <<"m","i",".","n">> >>,
    << <<"s","i","n">>, <<"s","i",".","n">> >>,
    << <<"v","i","n">>, <<"v","i",".","n">> >>,
    << <<"l","i","a","n">>, <<"l","i",".","a","n">> >>,
    << <<"c","i","a","n">>, <<"c","i",".","a","n">> >> }

\* C8: for every token of more than one character, not of abbreviation form,
\* whose lowercased, hyphen-stripped form is an exception word, check_word
\* returns valid = true with the fixed split (in the token's letter case),
\* whatever the dictionary holds, and without any dictionary lookup.
C8_Theorem ==
    \A p \in FixedSplits :
        (Ended /\ Len(token) > 1
            /\ ~(Len(token) > 2 /\ is_hyphen(token[2]))
            /\ Normalized(token) = p[1]) =>
            /\ Returned
            /\ result.valid
            /\ to_lowercase(result.word) = p[2]
            /\ Undotted(result.word) = remove_hyphens(token)
            /\ calls["lookup"] = 0

\* C8: a capitalized or hyphenated "vin" has been split as vi.n under a
\* dictionary in which "vin" is a key that stands without ending.
C8_Witness ==
    /\ Returned
    /\ token # <<"v","i","n">>
    /\ Normalized(token) = <<"v","i","n">>
    /\ contains_key(dictionary, <<"v","i","n">>)
    /\ dictionary[<<"v","i","n">>].without_ending = "Yes"
    /\ to_lowercase(result.word) = <<"v","i",".","n">>

\* C9 (as the specification states it): for every token longer than two
\* characters whose second character is a hyphen or soft hyphen, check_word
\* returns valid = true iff the lowercased token, hyphen kept, is a key;
\* it renders the token undivided, and runs neither Ending::new nor
\* find_morpheme.
C9_Original ==
    (Ended /\ IsToken(token) /\ Len(token) > 2 /\ is_hyphen(token[2])) =>
        /\ Returned
        /\ result.valid <=> contains_key(dictionary, to_lowercase(token))
        /\ result.word = token
        /\ calls["ending"] = 0
        /\ calls["find"] = 0

\* C9: check_word has panicked on a token of abbreviation form.
C9_Witness ==
    /\ pc = "panic"
    /\ IsToken(token)
    /\ Len(token) > 2
    /\ is_hyphen(token[2])
    /\ calls["ending"] = 0

-----------------------------------------------------------------------------
(* The dictionary during analysis.                                         *)

-----------------------------------------------------------------------------
(* The keys and the entries of the dictionary.                             *)

\* The text of an entry as make_dictionary makes its key: periods removed,
\* then lowercased (the x-digraphs are letters in the entry's text already).
KeyOf(entry) == to_lowercase(remove_char(entry.word, "."))

\* C12 (as the specification states it): every key of the map is the text
\* of its entry, lowercased, with its periods and its hyphens removed.
C12_Original ==
    \A k \in DOMAIN dictionary :
        k = to_lowercase(remove_char(remove_hyphens(dictionary[k].word), "."))

\* C12 (amended): every key of the map is the text of its entry, the
\* x-digraphs written as accented letters, with its periods removed and
\* then lowercased; a hyphen of the text stays in the key.
C12_Amended ==
    \A k \in DOMAIN dictionary :
        /\ k = KeyOf(dictionary[k])
        /\ dictionary[k].word = x_to_accent(dictionary[k].word)
        /\ \A i \in DOMAIN k : k[i] # "."
        /\ (\E i \in DOMAIN k : is_hyphen(k[i]))
              <=> (\E i \in DOMAIN dictionary[k].word : is_hyphen(dictionary[k].word[i]))

\* C12: make_dictionary has returned a map with a key that keeps the hyphen
\* of its entry's text, a key that lost a period, a key that was lowercased
\* and a key whose x-digraph became an accented letter.
C12_Witness ==
    /\ pc = "made"
    /\ \E k \in DOMAIN dictionary : \E i \in DOMAIN k : is_hyphen(k[i])
    /\ \E k \in DOMAIN dictionary : Len(k) < Len(dictionary[k].word)
    /\ \E k \in DOMAIN dictionary :
          k # dictionary[k].word /\ Len(k) = Len(dictionary[k].word)

\* C13 (as the specification states it): no entry of the map has the flag
\* Exclude, and none has the flag Separator.
C13_Original ==
    \A k \in DOMAIN dictionary : dictionary[k].flag \notin {"Exclude", "Separator"}

\* C13: make_dictionary has returned a map that holds an entry whose flag is
\* Exclude.
C13_Witness ==
    /\ pc = "made"
    /\ \E k \in DOMAIN dictionary : dictionary[k].flag = "Exclude"

-----------------------------------------------------------------------------
(* The order of the search of find_morpheme.                               *)

\* The last candidate a call has tried.
LastTry(f) == f.tried[Len(f.tried)]

\* The sizes from hi down to 2, longest first.
DownFrom(hi) == [j \in 1..(IF hi >= 2 THEN hi - 1 ELSE 0) |-> hi + 1 - j]

IsPrefix(a, b) == Len(a) <= Len(b) /\ \A j \in DOMAIN a : a[j] = b[j]

\* The candidates of the tries of a call, in the order they were made.
Cands(f) == [j \in DOMAIN f.tried |-> f.tried[j].cand]

\* The sizes of the loop among them: neither the whole rest nor the
\* separator.
IsLoopSize(t) == t > 1
LoopSizes(f) ==
    SelectSeq(IF f.index > 0 /\ f.tried # << >> THEN Tail(Cands(f)) ELSE Cands(f),
              IsLoopSize)

\* C14: a call of find_morpheme with index > 0 tries the whole rest first:
\* it is placed at index, and checked as the last morpheme, exactly when it
\* is a key whose entry joins with others, before any shorter candidate or
\* separator; when that check accepts, the call returns true having tried
\* nothing else.  A call with index = 0 never tries the whole stem.
C14_Theorem ==
    /\ \A i \in DOMAIN stack :
          LET f == stack[i]
              L == Len(f.rest)
          IN  /\ (f.index > 0 /\ f.tried = << >>) => f.cand = L
              /\ (f.index > 0 /\ f.tried # << >>) =>
                    /\ f.tried[1].cand = L
                    /\ f.tried[1].placed <=> joins(dictionary, f.rest)
                    /\ f.tried[1].placed => f.tried[1].then \in {"scan", "none"}
                    /\ f.tried[1].then = "none" => f.tried[1].suffix # "accepted"
                    /\ \A j \in 2..Len(f.tried) : f.tried[j].cand < L
              /\ f.index = 0 =>
                    /\ f.cand < L
                    /\ \A j \in DOMAIN f.tried : f.tried[j].cand < L
    /\ pc = "found" =>
          /\ Top.index > 0
          /\ Top.tried = <<Try(Len(Top.rest), TRUE, Top.tried[1].suffix, "scan")>>
          /\ last_index = Top.index
          /\ morpheme_list[Top.index].word = dictionary[Top.rest].word

\* C14: a word has been accepted because the whole rest, tried first at an
\* index above 0, passed the check as the last morpheme; the caller below
\* had tried a longer prefix in vain before.
C14_Witness ==
    /\ Returned
    /\ result.valid
    /\ stack # << >>
    /\ Top.index > 0
    /\ Len(Top.tried) = 1
    /\ Top.tried[1].cand = Len(Top.rest)
    /\ Top.tried[1].then = "scan"
    /\ Len(stack[1].tried) > 1

\* C15 (as the specification states it): the sizes a call of find_morpheme
\* tries in its loop on a rest of L characters are L-1, L-2, ..., 2, in that
\* order, all of them once the loop is over.
C15_Original ==
    \A i \in DOMAIN stack :
        LET f == stack[i]
            L == Len(f.rest)
        IN  /\ IsPrefix(LoopSizes(f), DownFrom(L - 1))
            /\ f.cand <= 1 => LoopSizes(f) = DownFrom(L - 1)

\* C15 (amended): the sizes a call of find_morpheme tries in its loop on a
\* rest of L characters are L-2, L-3, ..., 2, in that order, all of them once
\* the loop is over, so at least two characters are left for what follows;
\* the call returns true on the first size whose continuation succeeds.
C15_Amended ==
    /\ \A i \in DOMAIN stack :
          LET f == stack[i]
              L == Len(f.rest)
          IN  /\ IsPrefix(LoopSizes(f), DownFrom(L - 2))
              /\ f.cand <= 1 => LoopSizes(f) = DownFrom(L - 2)
              /\ \A j \in DOMAIN f.tried :
                    (f.tried[j].cand > 1 /\ f.tried[j].cand < L) =>
                        (f.tried[j].placed
                            <=> joins(dictionary, SubSeq(f.rest, 1, f.tried[j].cand)))
    /\ pc = "found" =>
          \A i \in 1..(Len(stack) - 1) :
              LET f == stack[i]
                  t == LastTry(f)
              IN  /\ t.then = "find"
                  /\ stack[i + 1].index = f.index + 1
                  /\ stack[i + 1].rest = SubSeq(f.rest, t.cand + 1, Len(f.rest))
                  /\ f.cand = next_candidate(f.rest, t.cand)

\* C15: find_morpheme has returned true on a prefix of a rest of at least
\* five characters that was not the first size of its loop, the first size
\* being L - 2.
C15_Witness ==
    /\ pc = "found"
    /\ \E i \in 1..(Len(stack) - 1) :
          /\ Len(stack[i].rest) >= 5
          /\ Len(LoopSizes(stack[i])) >= 2
          /\ LoopSizes(stack[i])[1] = Len(stack[i].rest) - 2
          /\ LastTry(stack[i]).cand > 1

\* The entry Entry::new_separator makes of the letters o, a and e.
IsSeparatorEntry(e, ch) ==
    /\ e.word = <<ch>>
    /\ e.flag = "Separator"
    /\ e.synthesis = "No"
    /\ e.part_of_speech = (CASE ch = "o" -> "Substantive"
                             [] ch = "a" -> "Adjective"
                             [] ch = "e" -> "Adverb"
                             [] OTHER -> "None")

\* C16: a call of find_morpheme tries a separator only when index > 0 and
\* the rest has at least 3 characters, after the whole rest and every size
\* of the loop; it places one exactly when the first character is o, a or e
\* (a Substantive, Adjective or Adverb with flag Separator and synthesis No),
\* and then calls find_morpheme on the rest after that character at
\* index + 1.
C16_Theorem ==
    \A i \in DOMAIN stack :
        LET f == stack[i]
            L == Len(f.rest)
        IN  \A j \in DOMAIN f.tried :
                f.tried[j].cand = 1 =>
                    /\ f.index > 0
                    /\ L >= 3
                    /\ j = Len(f.tried)
                    /\ SubSeq(Cands(f), 1, j - 1) = <<L>> \o DownFrom(L - 2)
                    /\ f.tried[j].placed <=> f.rest[1] \in {"o", "a", "e"}
                    /\ f.tried[j].placed => f.tried[j].then = "find"
                    /\ (f.tried[j].placed /\ i < Len(stack)) =>
                          /\ IsSeparatorEntry(morpheme_list[f.index], f.rest[1])
                          /\ stack[i + 1].index = f.index + 1
                          /\ stack[i + 1].rest = Tail(f.rest)

\* C16: a word has been accepted with a separator: the call that placed it
\* had tried the whole rest and every size of its loop before.
C16_Witness ==
    /\ Returned
    /\ result.valid
    /\ \E i \in 1..(Len(stack) - 1) :
          /\ LastTry(stack[i]).cand = 1
          /\ LastTry(stack[i]).placed
          /\ Len(stack[i].tried) >= 3
          /\ morpheme_list[stack[i].index].flag = "Separator"

-----------------------------------------------------------------------------
(* The slots after a successful search.                                    *)

\* The texts of slots 0 ..= last_index, one after the other.
SlotTexts == Concat([i \in 1..(last_index + 1) |-> morpheme_list[i - 1].word])

\* C17 (as the specification states it): whenever find_morpheme(stem, 0) has
\* returned true, the texts of slots 0 ..= last_index, concatenated, are the
\* stem character for character, and with the ending they are the normalized
\* word.
C17_Original ==
    SearchSucceeded =>
        /\ SlotTexts = Stem
        /\ SlotTexts \o ending.ending = word

\* C17 (amended): whenever find_morpheme(stem, 0) has returned true, the
\* texts of slots 0 ..= last_index, concatenated, with their periods removed
\* and lowercased, are the stem character for character, and with the ending
\* they are the normalized word; every slot holds the text of the entry of
\* a key of the dictionary or a separator letter.
C17_Amended ==
    SearchSucceeded =>
        /\ Undotted(to_lowercase(SlotTexts)) = Stem
        /\ Undotted(to_lowercase(SlotTexts)) \o ending.ending = word
        /\ last_index = Top.index
        /\ \A i \in 0..last_index :
              \/ morpheme_list[i].flag = "Separator" /\ morpheme_list[i].length = 1
              \/ /\ contains_key(dictionary, KeyOf(morpheme_list[i]))
                 /\ dictionary[KeyOf(morpheme_list[i])].word = morpheme_list[i].word

\* C17: find_morpheme has returned true with a slot whose text has a period
\* and a capital, so that the concatenation is longer than the stem.
C17_Witness ==
    /\ SearchSucceeded
    /\ Returned
    /\ last_index >= 1
    /\ Len(SlotTexts) > Len(Stem)
    /\ to_lowercase(SlotTexts) # SlotTexts

-----------------------------------------------------------------------------
(* check_synthesis: the suffix rule comes first.                           *)

\* The key a try looked up: the whole rest or its first cand characters.
TriedKey(f, t) == SubSeq(f.rest, 1, t.cand)

\* C18: when the morpheme just placed has synthesis = Suffix, check_suffix
\* has run on it; when check_suffix rejected, check_synthesis has called
\* neither find_morpheme nor scan_morphemes; otherwise it has called
\* find_morpheme on the rest (not the last morpheme) or scan_morphemes (the
\* last morpheme).  Every active call of find_morpheme above the first was
\* made by such a continuation.
C18_Theorem ==
    \A i \in DOMAIN stack :
        LET f == stack[i]
        IN  /\ \A j \in DOMAIN f.tried :
                  LET t == f.tried[j]
                  IN  /\ t.suffix = "rejected" => t.then = "none"
                      /\ (t.placed /\ t.cand > 1) =>
                            (t.suffix # "none"
                                <=> dictionary[TriedKey(f, t)].synthesis = "Suffix")
                      /\ (t.placed /\ t.suffix # "rejected") =>
                            t.then = (IF t.cand = Len(f.rest) THEN "scan" ELSE "find")
                      /\ ~t.placed => t.then = "none"
            /\ i < Len(stack) => LastTry(f).then = "find"

\* C18: a suffix placed after another morpheme has been rejected by its
\* rule: the call has gone on to its next candidate, no call of
\* find_morpheme was made for it and scan_morphemes has not run.
C18_Witness ==
    /\ pc = "search"
    /\ calls["scan"] = 0
    /\ \E i \in DOMAIN stack :
          /\ stack[i].index > 0
          /\ stack[i].tried # << >>
          /\ LastTry(stack[i]).suffix = "rejected"
          /\ stack[i].cand < LastTry(stack[i]).cand
          /\ i = Len(stack)

-----------------------------------------------------------------------------
(* The suffix rules that rewrite the slot of the suffix.                   *)

\* The slots placed so far, and for each what its placement recorded.
Placed == { i \in 0..last_index : i + 1 \in DOMAIN stack }
Accepted_at(i) == stack[i + 1].suffix = "accepted"
Rejected_at(i) == stack[i + 1].suffix = "rejected"

\* The entry as the dictionary row of a suffix gives it.
AsPlaced(e) ==
    /\ e.part_of_speech = "Suffix"
    /\ e.meaning = "NeKonata"
    /\ e.transitivity = "Intransitive"

Inherits(i) ==
    /\ morpheme_list[i].part_of_speech = morpheme_list[i - 1].part_of_speech
    /\ morpheme_list[i].meaning = morpheme_list[i - 1].meaning
    /\ morpheme_list[i].transitivity = morpheme_list[i - 1].transitivity

Inheriting == { <<"e","g">>, <<"e","t">>, <<"a","cx">> }

\* C19 (as the specification states it): -eg, -et and -acx at an index above
\* 0 are accepted only if the part of speech of the slot before is at or
\* below Adjective, and then the slot takes the part of speech, the meaning
\* and the transitivity of the slot before.
C19_Original ==
    \A i \in Placed :
        (i > 0 /\ morpheme_list[i].word \in Inheriting /\ Accepted_at(i)) =>
            /\ pos_le(morpheme_list[i - 1].part_of_speech, "Adjective")
            /\ Inherits(i)

\* C19 (amended): -eg and -et at an index above 0 are accepted exactly when
\* the part of speech of the slot before is at or below Adjective, -acx
\* exactly when it is at or below Adjective or is Participle; on acceptance
\* the slot takes the part of speech, the meaning and the transitivity of
\* the slot before, on rejection it stays as placed.
C19_Amended ==
    \A i \in Placed :
        (i > 0 /\ morpheme_list[i].word \in Inheriting) =>
            LET before == morpheme_list[i - 1].part_of_speech
            IN  /\ Accepted_at(i) \/ Rejected_at(i)
                /\ Accepted_at(i) <=>
                      \/ pos_le(before, "Adjective")
                      \/ morpheme_list[i].word = <<"a","cx">> /\ before = "Participle"
                /\ Accepted_at(i) => Inherits(i)
                /\ Rejected_at(i) => AsPlaced(morpheme_list[i])

\* C19: -acx has been accepted behind a transitive participle with a known
\* meaning and has taken its part of speech, its meaning and its
\* transitivity.
C19_Witness ==
    /\ pc = "placed"
    /\ \E i \in Placed :
          /\ i > 0
          /\ morpheme_list[i].word = <<"a","cx">>
          /\ Accepted_at(i)
          /\ morpheme_list[i].part_of_speech = "Participle"
          /\ morpheme_list[i].meaning # "NeKonata"
          /\ morpheme_list[i].transitivity = "Transitive"

\* C20 (as the specification states it): -ec, -estr and -ist, when accepted,
\* overwrite the part of speech of their slot with a fixed value, the
\* substantive (-estr the meaning too, with Persono).
C20_Original ==
    \A i \in Placed :
        Accepted_at(i) =>
            /\ morpheme_list[i].word \in {<<"e","c">>, <<"e","s","t","r">>, <<"i","s","t">>}
                  => morpheme_list[i].part_of_speech = "Substantive"
            /\ morpheme_list[i].word = <<"e","s","t","r">>
                  => morpheme_list[i].meaning = "Persono"

\* C20 (amended): -ec, when accepted, overwrites the part of speech of its
\* slot with Substantive; -estr overwrites it with Substantive and the
\* meaning with Persono; -ist rewrites nothing, its slot stays as placed.
\* The rule of the next suffix reads the rewritten slot: -eg, -et and -acx
\* behind an accepted -ec or -estr are accepted and inherit Substantive (and
\* Persono), -in behind -estr is accepted, and -eg and -et behind an
\* accepted -ist are rejected.
C20_Amended ==
    \A i \in Placed :
        LET e == morpheme_list[i]
        IN  /\ (Accepted_at(i) /\ e.word = <<"e","c">>) =>
                  /\ e.part_of_speech = "Substantive"
                  /\ e.meaning = "NeKonata"
            /\ (Accepted_at(i) /\ e.word = <<"e","s","t","r">>) =>
                  /\ e.part_of_speech = "Substantive"
                  /\ e.meaning = "Persono"
            /\ (Accepted_at(i) /\ e.word = <<"i","s","t">>) => AsPlaced(e)
            /\ (i > 0 /\ Accepted_at(i - 1)
                  /\ morpheme_list[i - 1].word \in {<<"e","c">>, <<"e","s","t","r">>}
                  /\ e.word \in Inheriting) =>
                  /\ Accepted_at(i)
                  /\ e.part_of_speech = "Substantive"
                  /\ e.meaning = morpheme_list[i - 1].meaning
            /\ (i > 0 /\ Accepted_at(i - 1)
                  /\ morpheme_list[i - 1].word = <<"e","s","t","r">>
                  /\ e.word = <<"i","n">>) => Accepted_at(i)
            /\ (i > 0 /\ Accepted_at(i - 1)
                  /\ morpheme_list[i - 1].word = <<"i","s","t">>
                  /\ e.word \in {<<"e","g">>, <<"e","t">>}) => Rejected_at(i)

\* C20: -ist has been accepted and the -et behind it rejected, the slot of
\* -ist still holding the part of speech of its dictionary row.
C20_Witness ==
    /\ pc = "placed"
    /\ last_index = 2
    /\ morpheme_list[1].word = <<"i","s","t">>
    /\ Accepted_at(1)
    /\ morpheme_list[1].part_of_speech = "Suffix"
    /\ morpheme_list[2].word = <<"e","t">>
    /\ Rejected_at(2)

\* scan_morphemes has been applied to the segmentation and has accepted it.
Scanned == pc = "scanned"
ScanAccepted == Scanned /\ result.valid

IsSeparator(i) == morpheme_list[i].flag = "Separator"

\* What the separator in slot i needs: a slot before it of a part of speech
\* no later than Adjective for -o-, and for -a- and -e- an ending -a or -e
\* and a slot before it of a part of speech no later than Adverb.
SeparatorFits(i) ==
    /\ i > 0
    /\ morpheme_list[i].part_of_speech = "Substantive" =>
           pos_le(morpheme_list[i - 1].part_of_speech, "Adjective")
    /\ morpheme_list[i].part_of_speech \in {"Adjective", "Adverb"} =>
           /\ ending.pos \in {"Adjective", "Adverb"}
           /\ pos_le(morpheme_list[i - 1].part_of_speech, "Adverb")

\* C21: scan_morphemes accepts no segmentation with a separator slot unless
\* the separator stands at an index above 0 and, for -o-, the slot before it
\* has a part of speech up to Adjective, and, for -a- and -e-, the ending is
\* adjectival or adverbial and the slot before it has a part of speech up to
\* Adverb; the part of speech of the slot before is the one its suffix rule
\* left there.
C21_Theorem ==
    ScanAccepted =>
        \A i \in 0 .. last_index : IsSeparator(i) => SeparatorFits(i)

\* C21: an accepted segmentation whose separator follows a suffix that took
\* the part of speech Substantive from the root before it.
C21_Witness ==
    /\ ScanAccepted
    /\ \E i \in 1 .. last_index :
          /\ IsSeparator(i)
          /\ morpheme_list[i - 1].synthesis = "Suffix"
          /\ morpheme_list[i - 1].part_of_speech = "Substantive"

\* The texts check_prefix has a rule for.
PrefixRuleTexts ==
    PrepositionalPrefixes \cup FirstPrefixes \cup AdverbialPrefixes
        \cup { <<"b","o">>, <<"c","i","s">>, <<"cx","i">>, <<"e","k","s">>, <<"g","e">>,
               <<"k","u","n">>, <<"m","a","l">>, <<"n","e">>, <<"p","o">>,
               <<"p","r","a">>, <<"p","s","e","ux","d","o">>, <<"s","e","n">>,
               <<"s","i","n">>, <<"s","u","b">>, <<"s","u","p","e","r">>,
               <<"s","u","r">> }

\* Slot i holds a prefix that is no technical prefix and has no rule.
PrefixWithoutRule(i) ==
    /\ morpheme_list[i].synthesis = "Prefix"
    /\ morpheme_list[i].part_of_speech # "TechPrefix"
    /\ morpheme_list[i].word \notin PrefixRuleTexts

\* C22: no segmentation scan_morphemes accepts (and so none for which
\* find_morpheme(stem, 0) returns true) has a Prefix slot at last_index, and
\* a segmentation with a Prefix slot whose text has no prefix rule and whose
\* part of speech is not TechPrefix is rejected.
C22_Theorem ==
    /\ ScanAccepted => morpheme_list[last_index].synthesis # "Prefix"
    /\ (Scanned /\ \E i \in 0 .. last_index : PrefixWithoutRule(i)) => ~result.valid

\* C22: a segmentation rejected only for its prefix without a rule: the
\* prefix is not last, and every other slot passes its checks.
C22_Witness ==
    /\ Scanned
    /\ ~result.valid
    /\ count_separators(morpheme_list, last_index) <= 1
    /\ \E i \in 0 .. (last_index - 1) :
          /\ PrefixWithoutRule(i)
          /\ \A j \in (0 .. last_index) \ {i} :
                scan_slot(j, morpheme_list, last_index, ending)

\* Slot i holds one of the prepositional prefixes (no technical prefix).
PrepositionalPrefixAt(i) ==
    /\ morpheme_list[i].synthesis = "Prefix"
    /\ morpheme_list[i].part_of_speech # "TechPrefix"
    /\ morpheme_list[i].word \in PrepositionalPrefixes

VerbLike(i) == morpheme_list[i].part_of_speech \in {"Verb", "SubstantiveVerb"}

\* C23: for a prepositional prefix (al, apud, cxe, de, dum, el, en, gxis,
\* laux, per, por, post, preter, pri, pro, tra, trans) at any index, the
\* prefix check of scan_morphemes accepts the slot exactly when the ending is
\* adjectival or adverbial and a morpheme follows the prefix, or a slot after
\* the prefix, up to last_index, is a Verb or a SubstantiveVerb.
C23_Theorem ==
    \A i \in 0 .. last_index :
        PrepositionalPrefixAt(i) =>
            ( scan_slot(i, morpheme_list, last_index, ending)
              <=> \/ ending.pos \in {"Adjective", "Adverb"} /\ i < last_index
                  \/ \E n \in (i + 1) .. last_index : VerbLike(n) )

\* C23: an accepted segmentation, before the ending -a, whose prepositional
\* prefix is not in the first slot and has no verb after it.
C23_Witness ==
    /\ ScanAccepted
    /\ ending.pos = "Adjective"
    /\ \E i \in 1 .. (last_index - 1) :
          /\ PrepositionalPrefixAt(i)
          /\ ~\E n \in (i + 1) .. last_index : VerbLike(n)

ParticipleAt(i) == morpheme_list[i].synthesis = "Participle"

\* C24: scan_morphemes' check of a slot of synthesis Participle rejects it at
\* index 0.  After a Verb or SubstantiveVerb: a participle of two characters
\* (at, it, ot) is rejected unless the slot before is Transitive; with a slot
\* after it, it is accepted exactly when that slot's text is ajx, ul, in, ec
\* or ar; with none after it, it is accepted.  After any other slot it is
\* accepted exactly when that slot's text is antaux, anstataux, cxirkaux,
\* kontraux or super.
C24_Theorem ==
    \A i \in 0 .. last_index :
        ParticipleAt(i) =>
            ( scan_slot(i, morpheme_list, last_index, ending)
              <=> /\ i > 0
                  /\ IF VerbLike(i - 1)
                     THEN /\ Len(morpheme_list[i].word) = 2 =>
                                 morpheme_list[i - 1].transitivity = "Transitive"
                          /\ i < last_index =>
                                 morpheme_list[i + 1].word
                                     \in { <<"a","jx">>, <<"u","l">>, <<"i","n">>,
                                           <<"e","c">>, <<"a","r">> }
                     ELSE morpheme_list[i - 1].word
                              \in { <<"a","n","t","a","ux">>,
                                    <<"a","n","s","t","a","t","a","ux">>,
                                    <<"cx","i","r","k","a","ux">>,
                                    <<"k","o","n","t","r","a","ux">>,
                                    <<"s","u","p","e","r">> } )

\* C24: an accepted segmentation with the participle it between a transitive
\* verb and the suffix ul.
C24_Witness ==
    /\ ScanAccepted
    /\ \E i \in 1 .. (last_index - 1) :
          /\ ParticipleAt(i)
          /\ Len(morpheme_list[i].word) = 2
          /\ VerbLike(i - 1)
          /\ morpheme_list[i - 1].transitivity = "Transitive"
          /\ morpheme_list[i + 1].word = <<"u","l">>

LimitedAt(i) == morpheme_list[i].synthesis = "Limited"

\* C25: in every accepted segmentation a Limited slot that is a Verb or a
\* SubstantiveVerb has, unless it is the first, a slot of synthesis Prefix
\* before it and, unless it is the last, a slot of synthesis Suffix or
\* Participle after it; a Limited slot that is neither verb-like nor of a
\* kinship, animal or ethnic meaning passes its check with any neighbours.
C25_Theorem ==
    /\ ScanAccepted =>
          \A i \in 0 .. last_index :
              (LimitedAt(i) /\ VerbLike(i)) =>
                  /\ i > 0 => morpheme_list[i - 1].synthesis = "Prefix"
                  /\ i < last_index =>
                         morpheme_list[i + 1].synthesis \in {"Suffix", "Participle"}
    /\ \A i \in 0 .. last_index :
          ( /\ LimitedAt(i)
            /\ ~VerbLike(i)
            /\ morpheme_list[i].meaning \notin {"Parenco", "Etno"}
            /\ ~is_animal(morpheme_list[i].meaning) )
              => scan_slot(i, morpheme_list, last_index, ending)

\* C25: an accepted segmentation with a limited verb between a prefix and a
\* participle.
C25_Witness ==
    /\ ScanAccepted
    /\ \E i \in 1 .. (last_index - 1) :
          /\ LimitedAt(i)
          /\ VerbLike(i)
          /\ morpheme_list[i - 1].synthesis = "Prefix"
          /\ morpheme_list[i + 1].synthesis = "Participle"

\* The entry the last try of the call f put in its slot, as the dictionary
\* or Entry::new_separator gave it.
BranchEntry(f) ==
    IF LastTry(f).cand = 1
    THEN Entry_new_separator(SubSeq(f.rest, 1, 1))
    ELSE dictionary[TriedKey(f, LastTry(f))]

\* The current branch: the last morpheme each active call has placed, and
\* the list these morphemes make when placed in order in a new list.
BranchEntries == [k \in 1 .. Len(stack) |-> BranchEntry(stack[k])]
BranchList == segmentation(BranchEntries).list

\* scan_morphemes has just run on the list, in the innermost call.
ScanRan ==
    /\ pc \in {"search", "found", "done", "panic"}
    /\ stack # << >>
    /\ Top.tried # << >>
    /\ LastTry(Top).placed
    /\ LastTry(Top).then = "scan"

\* A call of the current branch has placed a morpheme before its last one.
Abandoned(f) == \E j \in 1 .. (Len(f.tried) - 1) : f.tried[j].placed

\* C26: when scan_morphemes has run, and so when find_morpheme(stem, 0) has
\* returned true, last_index is the index of the last morpheme of the
\* current branch and every slot 0..last_index holds the entry, with its
\* suffix rewrite, that the current branch placed there, whatever abandoned
\* branches placed before; display_form and scan_morphemes give what they
\* give on a new list holding the current branch alone.
C26_Theorem ==
    ScanRan =>
        /\ last_index = Len(stack) - 1
        /\ \A k \in 1 .. Len(stack) : stack[k].index = k - 1
        /\ segmentation(BranchEntries).valid
        /\ \A i \in 0 .. last_index : morpheme_list[i] = BranchList[i]
        /\ display_form(morpheme_list, last_index, ending)
               = display_form(BranchList, last_index, ending)
        /\ scan_morphemes(morpheme_list, last_index, ending)
               = scan_morphemes(BranchList, last_index, ending)
        /\ pc = "found" => scan_morphemes(BranchList, last_index, ending)

\* C26: find_morpheme(stem, 0) has returned true on a branch one call of
\* which had placed another morpheme in its slot before.
C26_Witness ==
    /\ pc = "found"
    /\ ScanRan
    /\ \E k \in 1 .. Len(stack) : Abandoned(stack[k])

\* C27: at every call of find_morpheme, the first and every recursive one,
\* the rest of the stem it is given has at least two characters, so that
\* length_of_word - 1 does not underflow and no call works on an empty rest.
C27_Theorem ==
    \A k \in DOMAIN stack : Len(stack[k].rest) >= 2

\* C27: a call of find_morpheme on a rest of two characters, made after a
\* separator taken from a rest of three.
C27_Witness ==
    /\ pc = "search"
    /\ \E k \in 2 .. Len(stack) :
          /\ Len(stack[k].rest) = 2
          /\ Len(stack[k - 1].rest) = 3
          /\ LastTry(stack[k - 1]).cand = 1

\* C28: whenever find_morpheme(stem, 0) returns true the accepted
\* segmentation has at least two morphemes: last_index is at least 1, and the
\* first morpheme is a proper part of the stem, never the stem as one
\* dictionary morpheme.
C28_Theorem ==
    SearchSucceeded =>
        /\ last_index >= 1
        /\ Len(stack) = last_index + 1
        /\ Len(TriedKey(stack[1], LastTry(stack[1]))) < Len(stack[1].rest)

\* C28: find_morpheme(stem, 0) has returned true with exactly two morphemes,
\* the first of them a dictionary morpheme and no separator.
C28_Witness ==
    /\ pc = "found"
    /\ SearchSucceeded
    /\ last_index = 1
    /\ LastTry(stack[1]).cand > 1

\* C29: in every segmentation find_morpheme(stem, 0) accepts, a separator
\* slot is neither the first slot nor the slot at last_index.  The search
\* never writes a separator in slot 0, and the slot scan_morphemes has just
\* been called for, the last, never holds one.
C29_Theorem ==
    /\ ~IsSeparator(0)
    /\ ScanRan => ~IsSeparator(last_index)
    /\ SearchSucceeded =>
          \A i \in 0 .. last_index : IsSeparator(i) => (0 < i /\ i < last_index)

\* C29: find_morpheme(stem, 0) has returned true for a segmentation with a
\* separator between two morphemes.
C29_Witness ==
    /\ pc = "found"
    /\ SearchSucceeded
    /\ \E i \in 1 .. (last_index - 1) : IsSeparator(i)

\* The first argument of the call restore_capitals(original, analyzed) that
\* ends check_word: the token itself for a single letter and for an
\* abbreviation, the token without its hyphens otherwise.
RestoredOriginal ==
    IF Len(token) = 1 \/ is_abbreviation(token) THEN token ELSE original_word

\* C30 (as the specification states it): in every call check_word makes to
\* restore_capitals(original, analyzed) the analyzed form has, its dots not
\* counted, as many characters as the original: no index into the original
\* is out of range and the rendered word keeps every character of the
\* original.
C30_Original ==
    /\ pc # "panic"
    /\ Returned => Len(Undotted(result.word)) = Len(RestoredOriginal)

\* C30: check_word has panicked in restore_capitals after a search that
\* failed: the analyzed form, the lowercased word, is longer than the
\* original.
C30_Witness ==
    /\ pc = "panic"
    /\ result = NoResult
    /\ SearchFailed
    /\ Len(Undotted(word)) > Len(RestoredOriginal)

=============================================================================
